---- MODULE Spec2Model ----
(***************************************************************************)
(* Model of the documentation synchronisation engine                       *)
(* (docs/scripts/lib: SyncService, FileDiscovery, PathMapper,              *)
(* FrontmatterProcessor, FileOperations) and of the GenerationWatcher of   *)
(* the generate-and-watch script.                                          *)
(*                                                                         *)
(* Paths are sequences of segments; a segment is a pair <<stem, ext>>      *)
(* ("docs.mdx" is <<"docs", ".mdx">>, a directory "cli" is <<"cli", "">>). *)
(* An absolute path starts with the root segment <<"/", "">>.  Files on    *)
(* disk are keyed by their absolute path; the strings the code compares    *)
(* (Set.has, Map.get) are compared as the path values they are.            *)
(***************************************************************************)
EXTENDS Integers, Sequences, FiniteSets, TLC

\* ------------------------------------------------------------------ bounds
\* calls of the service's API (initialize, sync, watch, stopWatching, clean,
\* validate) in one behaviour
MaxCalls == 3
\* edits of source files by the environment in one behaviour
MaxEdits == 1
\* creations of a source file that does not exist, in one behaviour
MaxCreates == 1
\* watch handlers in flight at the same time
MaxInflight == 1
\* watcher events delivered to the GenerationWatcher in one behaviour
MaxGenEvents == 5
\* edits and handlers in flight where handlers race each other
MaxRaceEdits == 2
MaxRaceInflight == 2

\* ------------------------------------------------------------------ paths
D(name) == <<name, "">>
F(stem, ext) == <<stem, ext>>
Root == D("/")

\* resolve(__dirname, '../../..'): the project root patterns are resolved from
ProjectRoot == <<Root, D("proj")>>

\* path.resolve: relative paths are taken from the working directory
Resolve(a, b) ==
  \* process.cwd() of the running script
  LET Cwd == <<Root, D("w")>>
  IN
  LET IsAbsolute(p) == Len(p) > 0 /\ p[1] = Root
  IN
                 IF IsAbsolute(a) THEN a \o b ELSE Cwd \o a \o b
\* the file a path string denotes on disk
Abs(p) == Resolve(p, <<>>)

ExtName(p) == p[Len(p)][2]
BaseNameNoExt(p) == p[Len(p)][1]
DirName(p) == SubSeq(p, 1, Len(p) - 1)
\* basename of a directory path (directories of this universe carry no dot)
BaseNameOfDir(p) == p[Len(p)][1]
IsPrefix(a, p) == Len(a) <= Len(p) /\ SubSeq(p, 1, Len(a)) = a

SeqToSet(s) == {s[i] : i \in 1..Len(s)}

\* ---------------------------------------------------------------- patterns
\* A glob segment: stem "*" or a literal stem, and the extensions its
\* {a,b} group (or literal extension) accepts; any = a bare "*" segment.
GSeg(stem, exts, any) == [stem |-> stem, exts |-> exts, any |-> any]
GDir(name) == GSeg(name, {""}, FALSE)
GStar == GSeg("*", {}, TRUE)
MdExts == {".md", ".mdx"}

PCommand ==
  [pattern |-> <<GDir("commands"), GStar, GSeg("docs", MdExts, FALSE)>>,
   type |-> "command", outputSubdir |-> <<D("reference"), D("cli")>>]
PGuide ==
  [pattern |-> <<GDir("guides"), GSeg("*", MdExts, FALSE)>>,
   type |-> "guide", outputSubdir |-> <<D("guides")>>]
\* the pattern tables initialize() is called with
StdPatterns == <<PCommand, PGuide>>
CustomPatterns ==
  LET PGuideCustom ==
        [pattern |-> <<GDir("guides"), GSeg("*", MdExts, FALSE)>>,
         type |-> "guide", outputSubdir |-> <<D("custom")>>]
  IN
                  <<PGuideCustom>>
\* config.sourcePatterns as passed to initialize(): present (a list, maybe
\* empty) or absent (undefined)
Given(list) == [present |-> TRUE, list |-> list]
AbsOut == <<Root, D("w"), D("out")>>
RelOut == <<D("out")>>
EmptyDir == <<>>

\* ----------------------------------------------------------------- sources
SInit == ProjectRoot \o <<D("commands"), D("init"), F("docs", ".mdx")>>
SIntro == ProjectRoot \o <<D("guides"), F("intro", ".md")>>
\* the order glob returns matches in
SourceOrder == <<SInit, SIntro>>
Sources == SeqToSet(SourceOrder)
\* further files of the source tree, in glob's order: the documentation of
\* two assistants and a README next to the guides
TreeOrder ==
  << ProjectRoot \o <<D("assistants"), D("claude"), F("docs", ".mdx")>>,
     ProjectRoot \o <<D("assistants"), D("gemini"), F("docs", ".mdx")>>,
     ProjectRoot \o <<D("guides"), F("README", ".md")>> >>

MatchSeg(g, seg) ==
  /\ g.stem = "*" \/ g.stem = seg[1]
  /\ g.any \/ seg[2] \in g.exts

\* resolve(__dirname, '../../..', pattern): the directory the pattern is
\* taken from, one level up for a leading "..", and the rest of the pattern
ResolvePattern(pattern) ==
  IF pattern # <<>> /\ Head(pattern).stem = ".."
    THEN [root |-> DirName(ProjectRoot), glob |-> Tail(pattern)]
    ELSE [root |-> ProjectRoot, glob |-> pattern]

\* glob(fullPattern): the whole path matches the resolved pattern
GlobMatch(full, p) ==
  /\ Len(p) = Len(full.root) + Len(full.glob)
  /\ IsPrefix(full.root, p)
  /\ \A i \in 1..Len(full.glob) : MatchSeg(full.glob[i], p[Len(full.root) + i])

\* FileDiscovery.discoverFiles: per pattern, the existing files the resolved
\* pattern matches (files only, absolute), README files filtered out; the
\* patterns' results concatenated, duplicates kept.
IsReadme(p) == BaseNameNoExt(p) \in {"README", "readme", "Readme"}

\* variant: a pattern that fails to expand ends the discovery
AbortsAfterFailure(failed, rest) == IF failed THEN <<>> ELSE rest

\* lines 24-26: the failure is caught inside the loop, which goes on with
\* the patterns that follow
AfterPattern(failed, rest) == rest

\* discoverFiles from pattern i on, when glob() throws for the patterns
\* whose positions are in `failing`
RECURSIVE DiscoverFrom(_, _, _, _)
DiscoverFrom(patterns, fs, failing, i) ==
  IF i > Len(patterns) THEN <<>>
  ELSE LET full == ResolvePattern(patterns[i].pattern)
           files == SelectSeq(SourceOrder \o TreeOrder,
                      LAMBDA p : p \in DOMAIN fs /\ GlobMatch(full, p))
           filteredFiles == SelectSeq(files, LAMBDA p : ~IsReadme(p))
       IN (IF i \in failing THEN <<>> ELSE filteredFiles)
            \o AfterPattern(i \in failing, DiscoverFrom(patterns, fs, failing, i + 1))

DiscoverFiles(patterns, fs) == DiscoverFrom(patterns, fs, {}, 1)

\* globToRegex(pattern).test(path): the regex is anchored at the end only,
\* so the pattern has to match the last segments of the path.
RegexTest(pattern, p) ==
  /\ Len(pattern) <= Len(p)
  /\ \A i \in 1..Len(pattern) :
       MatchSeg(pattern[i], p[Len(p) - Len(pattern) + i])

\* FileDiscovery.getFileType: the type of the first pattern that matches,
\* <<>> for null
RECURSIVE GetFileType(_, _)
GetFileType(p, patterns) ==
  IF patterns = <<>> THEN <<>>
  ELSE IF RegexTest(Head(patterns).pattern, p) THEN <<Head(patterns).type>>
  ELSE GetFileType(p, Tail(patterns))

\* FileDiscovery.extractName
ExtractName(p, type) ==
  IF type \in {"command", "service", "assistant"}
  THEN BaseNameOfDir(DirName(p))
  ELSE BaseNameNoExt(p)

\* PathMapper.extractNameFromPath
ExtractNameFromPath(p, type) ==
  IF type \in {"command", "service"}
  THEN BaseNameOfDir(DirName(p))
  ELSE BaseNameNoExt(p)

\* PathMapper.getOutputSubdir: the first pattern of the mapper's table with
\* the type; it throws when there is none
HasSubdir(mapper, type) == \E i \in 1..Len(mapper) : mapper[i].type = type

GetOutputSubdir(mapper, type) ==
  LET i == CHOOSE i \in 1..Len(mapper) :
             /\ mapper[i].type = type
             /\ \A j \in 1..(i - 1) : mapper[j].type # type
  IN mapper[i].outputSubdir

\* PathMapper.mapPath
MapPath(mapper, p, type, outputDir) ==
  \* path.join: concatenation (no "." or ".." segments occur in this universe)
  LET Join3(a, b, c) == a \o b \o c
  IN
  Join3(outputDir, GetOutputSubdir(mapper, type),
        <<F(ExtractNameFromPath(p, type), ExtName(p))>>)

\* -------------------------------------------------------------- frontmatter
\* A metadata field is <<>> when absent and <<value>> when present; a
\* description is a sequence of text tokens.
Fm(title, description, label) ==
  [title |-> title, description |-> description, sidebar_label |-> label,
   sidebar_position |-> <<>>]

\* FrontmatterProcessor.generateDefault
GenerateDefault(name, type) ==
  \* nameToTitle over the names of this universe (no "-" or "_" in them)
  LET NameToTitle(word) ==
        CASE word = "init" -> "Init"
          [] word = "intro" -> "Intro"
          [] OTHER -> word
  IN
  LET title == NameToTitle(name)
      description ==
        CASE type = "command" -> <<"Documentation for the ", name, " command">>
          [] type = "service" -> <<"API documentation for the ", name, " service">>
          [] type = "assistant" -> <<title, " assistant reference">>
          [] type = "guide" -> <<title, " guide">>
          [] type = "about" -> <<title, " reference material">>
          [] type = "contributing" -> <<title, " contribution guide">>
          [] type = "architecture" -> <<title, " architecture overview">>
          [] OTHER -> <<title>>
  IN Fm(<<title>>, <<description>>, <<name>>)

\* A document: its leading metadata block (<<>> when the content does not
\* start with the delimiter, <<fm>> otherwise) and its body.
Doc(block, body) == [block |-> block, body |-> body, malformed |-> FALSE]

\* FrontmatterProcessor.parse: <<>> for null.  The exception matter() throws
\* is caught at lines 18-21 and null is returned.
Parse(content) == IF content.malformed THEN <<>> ELSE content.block

\* FrontmatterProcessor.inject: the body kept, the block replaced; when
\* matter() throws the block is put in front of the whole content
Inject(content, frontmatter) ==
  \* the whole text of a malformed document, block included, taken as a body
  LET Unparsed ==
        CASE content.body = "A" -> "---:---A"
          [] content.body = "B" -> "---:---B"
          [] OTHER -> "---:---"
  IN
  IF content.malformed
    THEN Doc(<<frontmatter>>, Unparsed)
    ELSE Doc(<<frontmatter>>, content.body)

\* FileOperations.getChecksum: md5 of the content (collisions left out)
GetChecksum(content) == <<"md5", content>>

RECURSIVE TextLen(_)
TextLen(text) ==
  \* length in characters of the text tokens of this universe
  LET TokLen(tok) ==
        CASE tok = "" -> 0
          [] tok = "init" -> 4
          [] tok = "Init" -> 4
          [] tok = "intro" -> 5
          [] tok = "Intro" -> 5
          [] tok = " guide" -> 6
          [] tok = " command" -> 8
          [] tok = "Documentation for the " -> 22
          [] tok = "a(159)" -> 159
          [] tok = "a(160)" -> 160
          [] tok = "a(161)" -> 161
          [] OTHER -> 1
  IN
                 IF text = <<>> THEN 0 ELSE TokLen(Head(text)) + TextLen(Tail(text))

\* String.trim() = '' over the tokens of this universe
IsBlank(tok) == tok \in {"", " "}

DescriptionMax == 160

\* A number is the fraction num/den with den > 0.
Rat(num, den) == [num |-> num, den |-> den]

\* variant: every number passes for an integer
AnyNumber(x) == TRUE

\* Number.isInteger
IsInteger(x) == x.num % x.den = 0

\* FrontmatterProcessor.validate: the error messages
FmErrors(fm) ==
  (IF fm.title = <<>> \/ IsBlank(fm.title[1])
     THEN <<"title is required and cannot be empty">> ELSE <<>>)
  \o
  (IF fm.description = <<>> \/ \A i \in 1..Len(fm.description[1]) :
                                   IsBlank(fm.description[1][i])
     THEN <<"description is required and cannot be empty">> ELSE <<>>)
  \o
  (IF fm.description # <<>> /\ TextLen(fm.description[1]) > DescriptionMax
     THEN <<"description should be under 160 characters for SEO">> ELSE <<>>)
  \o
  (IF fm.sidebar_position # <<>> /\ (\/ ~IsInteger(fm.sidebar_position[1])
                                     \/ fm.sidebar_position[1].num < 0)
     THEN <<"sidebar_position must be a positive integer">> ELSE <<>>)

\* ------------------------------------------------------------ file contents
\* the type a source has under the standard pattern table
StdType(p) == GetFileType(p, StdPatterns)[1]
\* what the environment may write into source p: a plain body, another
\* body, and the first body under exactly the metadata generateDefault
\* produces for p
RawContents(p) ==
  { Doc(<<>>, "A"), Doc(<<>>, "B"),
    Doc(<<GenerateDefault(ExtractName(p, StdType(p)), StdType(p))>>, "A") }

\* the metadata blocks a source may start with: none, valid, empty, without
\* title, without description, and one that cannot be parsed
DocContents(p) ==
  \* A document that starts with the delimiter but whose metadata block is not
  \* valid YAML: matter() throws on it.
  LET Malformed(body) == [block |-> <<>>, body |-> body, malformed |-> TRUE]
  IN
  { Doc(<<>>, "A"),
    Doc(<<GenerateDefault(ExtractName(p, StdType(p)), StdType(p))>>, "A"),
    Doc(<<Fm(<<>>, <<>>, <<>>)>>, "A"),
    Doc(<<Fm(<<>>, <<<<"intro">>>>, <<>>)>>, "A"),
    Doc(<<Fm(<<"Intro">>, <<>>, <<>>)>>, "A"),
    Malformed("A") }

\* hand-written files of the output tree
ManualInReference == AbsOut \o <<D("reference"), F("manual", ".md")>>
ManualInNotes == AbsOut \o <<D("notes"), F("keep", ".md")>>
ManualDoc == Doc(<<>>, "manual")
\* a file generated earlier whose source is gone
StaleGuide == AbsOut \o <<D("guides"), F("old", ".md")>>

\* -------------------------------------------------------------------- state
VARIABLES
  config,        \* this.config: <<>> (undefined) or <<configuration>>
  pathMapper,    \* this.pathMapper: <<>> or <<its pattern table>>
  filesCache,    \* this.filesCache: source path -> checksum
  watcher,       \* this.watcher: <<>> or <<the set of paths it watches>>
  leaked,        \* watchers still open that this.watcher no longer refers to
  errorListener, \* whether a listener for 'error' is registered
  srcFS,         \* the source files: absolute path -> content
  destFS,        \* the files of the output tree: absolute path -> content
  dirs,          \* the output roots initialize() has created
  pc,            \* "idle", or the position of the running sync(): "files"
  op,            \* the API call the running sync() belongs to
  sourceFiles,   \* sync(): the discovered list
  idx,           \* sync(): index of the next file of sourceFiles
  result,        \* sync(): the SyncResult being built
  inflight,      \* watch handlers that have started and not finished
  emitted,       \* notifications emitted by the last call or handler
  last,          \* how the last API call ended, and the state it was made in
  hist,          \* history: counters and what earlier calls did
  probe,         \* a helper called on its own: its name, arguments and result
  gen            \* the GenerationWatcher of the generate-and-watch script

vars == <<config, pathMapper, filesCache, watcher, leaked, errorListener,
          srcFS, destFS, dirs, pc, op, sourceFiles, idx, result, inflight,
          emitted, last, hist, probe, gen>>

\* no helper has been called on its own
NoProbe == [fn |-> "none"]

\* new GenerationWatcher(): its three fields; whether startWatching() has
\* installed the watcher; the runs of the generate command in progress; the
\* setTimeout callbacks not yet fired.  History: the events delivered so
\* far, whether an event is still owed a run, and the events delivered
\* during the run in progress.
NewGenerationWatcher ==
  [isGenerating |-> FALSE, pendingRegeneration |-> FALSE, isReady |-> FALSE,
   phase |-> "new", execs |-> 0, timers |-> 0,
   events |-> 0, owed |-> FALSE, during |-> 0]

service == <<config, pathMapper, filesCache, watcher, leaked>>
files == <<srcFS, destFS, dirs>>
running == <<pc, op, sourceFiles, idx, result>>

EmptyResult ==
  [filesProcessed |-> 0, filesAdded |-> <<>>, filesUpdated |-> <<>>,
   filesRemoved |-> {}, errors |-> <<>>]

\* How an API call ended: resolved or rejected (with which error); the
\* call made before it; the configuration, mapper table and directories it was made with; for a call
\* that ran a pass: its result, the discovered list, the files its cleanup
\* deleted, the destinations of the sources it processed successfully,
\* whether it directly followed another sync() with nothing in between, and
\* the sources that previous sync() processed successfully.
EndedRun(call, outcome, error, res, disc, deleted, processed, inRow, prevOk) ==
  [op |-> call, before |-> IF pc = "files" THEN hist.before ELSE hist.call,
   outcome |-> outcome, error |-> error,
   config |-> config, mapper |-> pathMapper, dirs |-> dirs,
   initialized |-> hist.everInit,
   result |-> res, discovered |-> disc, deleted |-> deleted,
   processed |-> processed, inRow |-> inRow, prevOk |-> prevOk]

Ended(call, outcome, error) ==
  EndedRun(call, outcome, error, EmptyResult, <<>>, {}, {}, FALSE, {})

\* a call starts: it is counted, and it ends any run of consecutive sync()s
Called(h, call) ==
  [h EXCEPT !.calls = @ + 1, !.call = call, !.before = h.call,
            !.quiet = FALSE]

\* the service and its surroundings after `new SyncService()`
Constructed ==
  /\ config = <<>>
  /\ pathMapper = <<>>
  /\ filesCache = <<>>
  /\ watcher = <<>>
  /\ leaked = {}
  /\ errorListener = FALSE
  /\ srcFS \in [Sources -> {Doc(<<>>, "A")}]
  /\ destFS = (ManualInReference :> ManualDoc) @@ (ManualInNotes :> ManualDoc)
                @@ (StaleGuide :> ManualDoc)
  /\ dirs = {}
  /\ pc = "idle"
  /\ op = "none"
  /\ sourceFiles = <<>>
  /\ idx = 1
  /\ result = EmptyResult
  /\ inflight = <<>>
  /\ emitted = <<>>
  /\ hist = [calls |-> 0, edits |-> 0, creates |-> 0, call |-> "none", before |-> "none", everInit |-> FALSE,
             quiet |-> FALSE, inRow |-> FALSE, prevOk |-> {}, ok |-> {},
             written |-> {}, rejections |-> 0, globFailed |-> {},
             unlinked |-> {}, dropped |-> {}, wrote |-> <<>>, by |-> <<>>]
  /\ last = [op |-> "none", before |-> "none", outcome |-> "resolved", error |-> "",
             config |-> <<>>, mapper |-> <<>>, dirs |-> {},
             initialized |-> FALSE, result |-> EmptyResult,
             discovered |-> <<>>, deleted |-> {}, processed |-> {},
             inRow |-> FALSE, prevOk |-> {}]

Init == probe = NoProbe /\ gen = NewGenerationWatcher /\ Constructed

\* ---------------------------------------------------------------- initialize
Config(patterns, outputDir, watch, clean) ==
  [sourcePatterns |-> patterns, outputDir |-> outputDir,
   watch |-> watch, clean |-> clean, validate |-> TRUE]

\* the configurations initialize() is called with: the standard table with
\* an absolute and with a relative output root, a table with another
\* subdirectory, and the invalid ones
Configs ==
  LET Missing == [present |-> FALSE, list |-> <<>>]
  IN
  { Config(Given(StdPatterns), AbsOut, TRUE, TRUE),
    Config(Given(StdPatterns), RelOut, FALSE, TRUE),
    Config(Given(CustomPatterns), AbsOut, FALSE, FALSE),
    Config(Given(CustomPatterns), EmptyDir, TRUE, TRUE),
    Config(Given(<<>>), AbsOut, TRUE, TRUE),
    Config(Missing, AbsOut, TRUE, TRUE) }

ValidationErrors ==
  {"Output directory is required", "At least one source pattern is required"}

\* the configuration as the service keeps it (sourcePatterns is a list here)
Adopted(c) ==
  [sourcePatterns |-> c.sourcePatterns.list, outputDir |-> c.outputDir,
   watch |-> c.watch, clean |-> c.clean, validate |-> c.validate]

\* new PathMapper(config.sourcePatterns): patterns || DEFAULT_CONFIG.sourcePatterns
NewPathMapper(patterns) ==
  \* DEFAULT_CONFIG.sourcePatterns, restricted to the types of this universe:
  \* its subdirectories are docs/reference/cli and docs/guides
  LET DefaultPatterns ==
        << [PCommand EXCEPT !.outputSubdir = <<D("docs")>> \o @],
           [PGuide EXCEPT !.outputSubdir = <<D("docs")>> \o @] >>
  IN
  <<IF patterns.present THEN patterns.list ELSE DefaultPatterns>>

\* SyncService.initialize(config).  mkdirOk: whether creating the output root
\* succeeds.
Initialize(c, mkdirOk) ==
  /\ UNCHANGED <<probe, gen>>
  /\ pc = "idle"
  /\ hist.calls < MaxCalls
  /\ pathMapper' = NewPathMapper(c.sourcePatterns)
  /\ IF c.outputDir = EmptyDir
     THEN /\ last' = Ended("initialize", "rejected", "Output directory is required")
          /\ hist' = Called(hist, "initialize")
          /\ UNCHANGED <<config, dirs>>
     ELSE IF ~c.sourcePatterns.present \/ c.sourcePatterns.list = <<>>
     THEN /\ last' = Ended("initialize", "rejected",
                           "At least one source pattern is required")
          /\ hist' = Called(hist, "initialize")
          /\ UNCHANGED <<config, dirs>>
     ELSE /\ config' = <<Adopted(c)>>
          /\ IF mkdirOk
             THEN /\ dirs' = dirs \cup {Abs(c.outputDir)}
                  /\ last' = Ended("initialize", "resolved", "")
                  /\ hist' = [Called(hist, "initialize") EXCEPT !.everInit = TRUE]
             ELSE /\ dirs' = dirs
                  /\ last' = Ended("initialize", "rejected", "mkdir failed")
                  /\ hist' = Called(hist, "initialize")
  /\ emitted' = <<>>
  /\ UNCHANGED <<filesCache, watcher, leaked, errorListener, srcFS, destFS,
                 running, inflight>>

\* the caller registers a listener: service.on('error', ...)
RegisterErrorListener ==
  /\ UNCHANGED <<probe, gen>>
  /\ ~errorListener
  /\ errorListener' = TRUE
  /\ UNCHANGED <<service, files, running, inflight, emitted, last, hist>>

\* ------------------------------------------------------------------ sync
Cfg == config[1]
Mapper == pathMapper[1]

\* EventEmitter.emit: 'error' with no listener registered throws instead of
\* notifying anyone
EmitThrows(event) == event = "error" /\ ~errorListener

\* the points of processFile at which an I/O call can fail
FailPoints == {"none", "read", "mkdir", "write", "stat"}

\* FileOperations.readFile: <<content>>, or <<>> when it throws
ReadFile(p, fail) ==
  IF p \in DOMAIN srcFS /\ fail # "read" THEN <<srcFS[p]>> ELSE <<>>

\* variant: the source bytes as they are, nothing injected
RawBytes(p, type, content) == content

\* processFile, lines 238-254: the content with its own metadata, or with
\* generated metadata when it has none, injected
ProcessedContent(p, type, content) ==
  LET parsed == Parse(content)
      frontmatter == IF parsed = <<>>
                     THEN GenerateDefault(ExtractName(p, type), type)
                     ELSE parsed[1]
  IN Inject(content, frontmatter)

\* processFile, lines 239-243: the metadata it goes on with
Frontmatter(p, type, content) ==
  IF Parse(content) = <<>>
    THEN GenerateDefault(ExtractName(p, type), type)
    ELSE Parse(content)[1]

\* variant: validation errors make processFile throw
ValidationRejects(errors) == errors # <<>>

\* processFile, lines 246-251: whether the validation errors make it throw
\* (they are only written to the console)
ValidationThrows(errors) == FALSE

\* SyncService.processFile(p) with the outcome `read` of its readFile, the
\* I/O outcome `fail` of the rest and config.validate: what it returns or
\* throws, and whether the destination was written before that.
\*   kind "null": no type, nothing done;  "threw": it threw at `at`;
\*   "doc": the DocumentationFile record.
ProcessFileV(p, read, fail, validate) ==
  LET type == GetFileType(p, Cfg.sourcePatterns)
      processedContent == ProcessedContent(p, type[1], read[1])
      destPath == MapPath(Mapper, p, type[1], Cfg.outputDir)
      Threw(at, wrote) == [kind |-> "threw", at |-> at, wrote |-> wrote,
                           sourcePath |-> p, destPath |-> <<>>,
                           content |-> Doc(<<>>, ""), checksum |-> <<>>]
  IN IF type = <<>>
       THEN [kind |-> "null", at |-> "", wrote |-> FALSE, sourcePath |-> p,
             destPath |-> <<>>, content |-> Doc(<<>>, ""), checksum |-> <<>>]
     ELSE IF read = <<>> THEN Threw("read", FALSE)
     ELSE IF /\ validate
             /\ ValidationThrows(FmErrors(Frontmatter(p, type[1], read[1])))
       THEN Threw("validate", FALSE)
     ELSE IF ~HasSubdir(Mapper, type[1]) THEN Threw("mapPath", FALSE)
     ELSE IF fail = "mkdir" THEN Threw("mkdir", FALSE)
     ELSE IF fail = "write" THEN Threw("write", FALSE)
     ELSE IF fail = "stat"
       THEN [Threw("stat", TRUE) EXCEPT !.destPath = destPath,
                                        !.content = processedContent]
     ELSE [kind |-> "doc", at |-> "", wrote |-> TRUE, sourcePath |-> p,
           destPath |-> destPath, content |-> processedContent,
           checksum |-> GetChecksum(processedContent)]

\* SyncService.processFile(p) under the configuration of the service
ProcessFile(p, read, fail) == ProcessFileV(p, read, fail, Cfg.validate)

\* the output tree after processFile: the destination written, unless it
\* threw before
DestAfter(r) ==
  IF r.wrote THEN (Abs(r.destPath) :> r.content) @@ destFS ELSE destFS

\* the history after processFile: for each source, the checksum of the
\* content that was last written to its destination (line 263)
\* and, inside a pass of sync(), the sources each destination was written for
Wrote(h, r) ==
  IF r.wrote
    THEN [h EXCEPT
            !.wrote = (r.sourcePath :> GetChecksum(r.content)) @@ @,
            !.by = IF pc # "files" THEN @
                   ELSE LET d == Abs(r.destPath)
                        IN (d :> ({r.sourcePath} \cup
                                    (IF d \in DOMAIN @ THEN @[d] ELSE {}))) @@ @]
    ELSE h

\* variant: the per-file error marked as not recoverable
FatalSyncError(p) == [file |-> p, type |-> "unknown", recoverable |-> FALSE]

\* variant: the cache forgets what was processed
CacheForgets(cache, sourcePath, checksum) == cache

\* this.filesCache.set(sourcePath, checksum), lines 91 and 287
CacheAfter(cache, sourcePath, checksum) == (sourcePath :> checksum) @@ cache

\* the entry sync() pushes to result.errors (the message text left out)
SyncError(p) == [file |-> p, type |-> "unknown", recoverable |-> TRUE]

\* sync(), up to the end of discovery (lines 57-74)
SyncStartWhen(call, failing) ==
  /\ sourceFiles' = DiscoverFrom(Cfg.sourcePatterns, srcFS, failing, 1)
  /\ idx' = 1
  /\ result' = EmptyResult
  /\ pc' = "files"
  /\ op' = call
  /\ emitted' = <<>>
  /\ hist' = [Called(hist, call) EXCEPT
                !.inRow = (call = "sync" /\ hist.quiet),
                !.ok = {}, !.written = {}, !.globFailed = failing,
                !.by = <<>>]

NotInitialized(call) ==
  /\ last' = Ended(call, "rejected", "Service not initialized")
  /\ emitted' = <<>>
  /\ hist' = Called(hist, call)

\* SyncService.sync() called, when glob() throws for the patterns whose
\* positions are in `failing`
SyncCallWhen(failing) ==
  /\ UNCHANGED <<probe, gen>>
  /\ pc = "idle"
  /\ hist.calls < MaxCalls
  /\ IF config = <<>>
     THEN NotInitialized("sync") /\ UNCHANGED running
     ELSE SyncStartWhen("sync", failing) /\ UNCHANGED last
  /\ UNCHANGED <<service, errorListener, files, inflight>>

\* SyncService.sync() called
SyncCall == SyncCallWhen({})

\* one iteration of the loop over sourceFiles (lines 77-101)
SyncFile(fail) ==
  /\ UNCHANGED <<probe, gen>>
  /\ pc = "files"
  /\ idx <= Len(sourceFiles)
  /\ LET sourcePath == sourceFiles[idx]
         r == ProcessFile(sourcePath, ReadFile(sourcePath, fail), fail)
     IN /\ destFS' = DestAfter(r)
        /\ CASE r.kind = "doc" ->
                  /\ result' =
                       [result EXCEPT
                          !.filesProcessed = @ + 1,
                          !.filesAdded =
                             IF sourcePath \notin DOMAIN filesCache
                             THEN Append(@, r) ELSE @,
                          !.filesUpdated =
                             IF /\ sourcePath \in DOMAIN filesCache
                                /\ filesCache[sourcePath] # r.checksum
                             THEN Append(@, r) ELSE @]
                  /\ filesCache' = CacheAfter(filesCache, sourcePath, r.checksum)
                  /\ hist' = [Wrote(hist, r) EXCEPT !.ok = @ \cup {sourcePath},
                                          !.written = @ \cup {Abs(r.destPath)},
                                          !.unlinked = @ \ {sourcePath},
                                          !.dropped = @ \ {sourcePath}]
             [] r.kind = "threw" ->
                  /\ result' = [result EXCEPT
                                  !.errors = Append(@, SyncError(sourcePath))]
                  /\ hist' = Wrote(hist, r)
                  /\ UNCHANGED filesCache
             [] r.kind = "null" -> UNCHANGED <<result, filesCache, hist>>
  /\ idx' = idx + 1
  /\ UNCHANGED <<config, pathMapper, watcher, leaked, errorListener, srcFS,
                 dirs, pc, op, sourceFiles, inflight, emitted, last>>

\* --------------------------------------------------------------- cleanup
\* cleanOrphaned, lines 335-342: the discovered sources that have a type
Typed(fileList) ==
  SelectSeq(fileList, LAMBDA s : GetFileType(s, Cfg.sourcePatterns) # <<>>)

\* line 345
ManagedDirs == {"reference", "guides"}

\* lines 348-352: glob(resolve(outputDir, dir, '**/*.{md,mdx}')), absolute
ExistingFiles ==
  \* the order glob lists the files of the output tree in
  LET DestOrder ==
        << AbsOut \o <<D("reference"), D("cli"), F("init", ".mdx")>>,
           ManualInReference,
           AbsOut \o <<D("guides"), F("intro", ".md")>>,
           StaleGuide,
           AbsOut \o <<D("custom"), F("intro", ".md")>>,
           AbsOut \o <<D("docs"), D("reference"), D("cli"), F("init", ".mdx")>>,
           AbsOut \o <<D("docs"), D("guides"), F("intro", ".md")>>,
           ManualInNotes >>
  IN
  SelectSeq(DestOrder,
    LAMBDA f : /\ f \in DOMAIN destFS
               /\ ExtName(f) \in MdExts
               /\ \E dir \in ManagedDirs :
                    IsPrefix(Resolve(Cfg.outputDir, <<D(dir)>>), DirName(f)))

\* lines 355-356: the existing files that are not in expectedDests
Orphans(fileList) ==
  \* the paths mapPath returns, as returned (relative when outputDir is)
  LET ExpectedDests ==
        { MapPath(Mapper, s, GetFileType(s, Cfg.sourcePatterns)[1], Cfg.outputDir) :
            s \in SeqToSet(Typed(fileList)) }
  IN
  SelectSeq(ExistingFiles, LAMBDA f : f \notin ExpectedDests)

\* the ways cleanOrphaned(fileList) can run: it throws from mapPath before
\* deleting anything; or it deletes the orphans in order, and either all
\* deletions succeed or one deleteFile throws (an error other than ENOENT)
\* and the loop is left with the files before it deleted.
CleanRuns(fileList) ==
  \* mapPath throws for a type the mapper's table does not have
  LET ExpectedThrows ==
        \E i \in 1..Len(Typed(fileList)) :
           ~HasSubdir(Mapper, GetFileType(Typed(fileList)[i], Cfg.sourcePatterns)[1])
  IN
  IF ExpectedThrows THEN {[threw |-> TRUE, deleted |-> {}]}
  ELSE LET orphans == Orphans(fileList)
       IN {[threw |-> FALSE, deleted |-> SeqToSet(orphans)]}
          \cup {[threw |-> TRUE, deleted |-> SeqToSet(SubSeq(orphans, 1, k - 1))] :
                  k \in 1..Len(orphans)}

Remove(fs, paths) == [f \in (DOMAIN fs) \ paths |-> fs[f]]

\* watch(), lines 136-141: every pattern expanded to the files that exist
\* now (README files included)
WatchSnapshot ==
  {p \in DOMAIN srcFS :
     \E i \in 1..Len(Cfg.sourcePatterns) :
        GlobMatch(ResolvePattern(Cfg.sourcePatterns[i].pattern), p)}

\* variant: cleanup runs whatever the configuration says
CleanAlways(c) == TRUE

\* sync(), line 104: `if (this.config.clean)`
CleanEnabled(c) == c.clean

\* sync() after the loop (lines 103-118), and for watch() the rest of
\* watch() (lines 136-160).  completeThrows: a listener of 'complete' throws;
\* emit() is called inside the try block, so the catch at 110-112 takes the
\* exception, emits 'error' and sync() rejects.
SyncEnd(completeThrows) ==
  /\ UNCHANGED <<probe, gen>>
  /\ pc = "files"
  /\ idx > Len(sourceFiles)
  /\ \E run \in IF CleanEnabled(Cfg) THEN CleanRuns(sourceFiles)
                ELSE {[threw |-> FALSE, deleted |-> {}]} :
       /\ destFS' = Remove(destFS, run.deleted)
       /\ IF run.threw
          THEN /\ emitted' = IF EmitThrows("error") THEN <<>> ELSE <<"error">>
               /\ last' = EndedRun(op, "rejected", "cleanup failed", result,
                                   sourceFiles, run.deleted, hist.written,
                                   hist.inRow, hist.prevOk)
               /\ UNCHANGED <<watcher, leaked>>
          ELSE IF completeThrows
          THEN /\ emitted' = <<"complete">> \o
                               (IF EmitThrows("error") THEN <<>> ELSE <<"error">>)
               /\ last' = EndedRun(op, "rejected", "listener failed",
                                   [result EXCEPT !.filesRemoved = run.deleted],
                                   sourceFiles, run.deleted, hist.written,
                                   hist.inRow, hist.prevOk)
               /\ UNCHANGED <<watcher, leaked>>
          ELSE /\ emitted' = <<"complete">>
               /\ last' = EndedRun(op, "resolved", "",
                                   [result EXCEPT !.filesRemoved = run.deleted],
                                   sourceFiles, run.deleted, hist.written,
                                   hist.inRow, hist.prevOk)
               /\ IF op = "watch"
                  THEN /\ watcher' = <<WatchSnapshot>>
                       /\ leaked' = leaked \cup SeqToSet(watcher)
                  ELSE UNCHANGED <<watcher, leaked>>
  /\ hist' = [hist EXCEPT !.quiet = (op = "sync"), !.prevOk = hist.ok]
  /\ pc' = "idle"
  /\ op' = "none"
  /\ sourceFiles' = <<>>
  /\ idx' = 1
  /\ result' = EmptyResult
  /\ UNCHANGED <<config, pathMapper, filesCache, errorListener, srcFS, dirs,
                 inflight>>

\* the end of sync() with listeners of 'complete' that return or throw
SyncFinish == \E completeThrows \in BOOLEAN : SyncEnd(completeThrows)

\* variant: the watch flag is not looked at
WatchAlways(c) == TRUE

\* watch(), line 128
WatchEnabled(c) == c.watch

\* SyncService.watch() called
WatchCall ==
  \* sync() entered when every pattern expands
  LET SyncStart(call) == SyncStartWhen(call, {})
  IN
  /\ UNCHANGED <<probe, gen>>
  /\ pc = "idle"
  /\ hist.calls < MaxCalls
  /\ IF config = <<>>
     THEN NotInitialized("watch") /\ UNCHANGED running
     ELSE IF ~WatchEnabled(Cfg)
     THEN /\ last' = Ended("watch", "rejected",
                           "Watch mode not enabled in configuration")
          /\ emitted' = <<>>
          /\ hist' = Called(hist, "watch")
          /\ UNCHANGED running
     ELSE SyncStart("watch") /\ UNCHANGED last
  /\ UNCHANGED <<service, errorListener, files, inflight>>

\* variant: the watcher stays referenced
StaysOpen(w) == w

\* stopWatching, lines 167-170: this.watcher after the call
ClosedWatcher(w) == <<>>

\* SyncService.stopWatching()
StopWatching ==
  /\ UNCHANGED <<probe, gen>>
  /\ pc = "idle"
  /\ hist.calls < MaxCalls
  /\ watcher' = ClosedWatcher(watcher)
  /\ last' = Ended("stopWatching", "resolved", "")
  /\ emitted' = <<>>
  /\ hist' = Called(hist, "stopWatching")
  /\ UNCHANGED <<config, pathMapper, filesCache, leaked, errorListener, files,
                 running, inflight>>

\* SyncService.clean()
CleanCall ==
  /\ UNCHANGED <<probe, gen>>
  /\ pc = "idle"
  /\ hist.calls < MaxCalls
  /\ IF config = <<>>
     THEN NotInitialized("clean") /\ UNCHANGED destFS
     ELSE LET fileList == DiscoverFiles(Cfg.sourcePatterns, srcFS)
          IN \E run \in CleanRuns(fileList) :
               /\ destFS' = Remove(destFS, run.deleted)
               /\ last' = EndedRun("clean",
                            IF run.threw THEN "rejected" ELSE "resolved",
                            IF run.threw THEN "cleanup failed" ELSE "",
                            [EmptyResult EXCEPT !.filesRemoved = run.deleted],
                            fileList, run.deleted, {}, FALSE, {})
               /\ emitted' = <<>>
               /\ hist' = Called(hist, "clean")
  /\ UNCHANGED <<service, errorListener, srcFS, dirs, running, inflight>>

\* -------------------------------------------------------------- validate
\* validate(), lines 196-220: one entry per file that cannot be read or whose
\* metadata block has validation errors
RECURSIVE ValidateErrors(_, _)
ValidateErrors(fileList, unreadable) ==
  IF fileList = <<>> THEN <<>>
  ELSE LET sourcePath == Head(fileList)
           rest == ValidateErrors(Tail(fileList), unreadable)
           Entry(type) == [file |-> sourcePath, type |-> type,
                           recoverable |-> TRUE]
       IN IF sourcePath \in unreadable \/ sourcePath \notin DOMAIN srcFS
            THEN <<Entry("parse")>> \o rest
          ELSE IF /\ Parse(srcFS[sourcePath]) # <<>>
                  /\ FmErrors(Parse(srcFS[sourcePath])[1]) # <<>>
            THEN <<Entry("validate")>> \o rest
          ELSE rest

\* variant: validate() notifies 'error' when it found errors
ValidateEmitsErrors(errors) == IF errors = <<>> THEN <<>> ELSE <<"error">>

\* validate(), lines 188-223: the notifications it emits (there is no emit)
ValidateEmits(errors) == <<>>

\* SyncService.validate() when the files of `unreadable` cannot be read
Validate(unreadable) ==
  /\ UNCHANGED <<probe, gen>>
  /\ pc = "idle"
  /\ hist.calls < MaxCalls
  /\ IF config = <<>>
     THEN NotInitialized("validate")
     ELSE LET fileList == DiscoverFiles(Cfg.sourcePatterns, srcFS)
              errors == ValidateErrors(fileList, unreadable)
          IN /\ last' = EndedRun("validate", "resolved", "",
                                 [EmptyResult EXCEPT !.errors = errors],
                                 fileList, {}, {}, FALSE, {})
             /\ emitted' = ValidateEmits(errors)
             /\ hist' = Called(hist, "validate")
  /\ UNCHANGED <<service, errorListener, files, running, inflight>>

\* SyncService.validate()
ValidateCall ==
  \E unreadable \in {{}} \cup {{s} : s \in Sources} : Validate(unreadable)

\* ------------------------------------------------------------ watch mode
\* the watchers that are open: the one this.watcher refers to and the ones
\* an earlier watch() installed and nothing closed
OpenWatchers == SeqToSet(watcher) \cup leaked

\* a handler that has started: the callbacks of lines 149-160
Handler(kind, path) ==
  [kind |-> kind, path |-> path, stage |-> "start", content |-> <<>>]

Drop(i) == SubSeq(inflight, 1, i - 1) \o SubSeq(inflight, i + 1, Len(inflight))

\* the environment changes an existing source file: `now` is <<>> when it is
\* removed and <<content>> when it is rewritten.  Every open watcher that
\* watches the path delivers the event, and a handler starts for each.
\* `when`: the positions of sync() at which the edit may happen.
EnvEditWithin(p, now, when, maxEdits, maxInflight) ==
  /\ UNCHANGED <<probe, gen>>
  /\ pc \in when
  /\ hist.edits < maxEdits
  /\ p \in DOMAIN srcFS
  /\ now # <<srcFS[p]>>
  /\ srcFS' = IF now = <<>> THEN Remove(srcFS, {p})
              ELSE (p :> now[1]) @@ srcFS
  /\ LET kind == IF now = <<>> THEN "unlink" ELSE "file-updated"
         started == IF \E w \in OpenWatchers : p \in w
                    THEN <<Handler(kind, p)>> ELSE <<>>
     IN /\ Len(inflight) + Len(started) <= maxInflight
        /\ inflight' = inflight \o started
  /\ hist' = [hist EXCEPT !.edits = @ + 1, !.quiet = FALSE]
  /\ UNCHANGED <<service, errorListener, destFS, dirs, running, emitted, last>>

\* an edit between two calls or while only handlers run
EnvEdit(p, now) == EnvEditWithin(p, now, {"idle"}, MaxEdits, MaxInflight)

\* the environment creates a source file that does not exist; an open
\* watcher that watches the path delivers 'add'
EnvCreate(p, content) ==
  /\ UNCHANGED <<probe, gen>>
  /\ pc = "idle"
  /\ hist.creates < MaxCreates
  /\ p \notin DOMAIN srcFS
  /\ srcFS' = (p :> content) @@ srcFS
  /\ LET started == IF \E w \in OpenWatchers : p \in w
                    THEN <<Handler("file-added", p)>> ELSE <<>>
     IN /\ Len(inflight) + Len(started) <= MaxInflight
        /\ inflight' = inflight \o started
  /\ hist' = [hist EXCEPT !.creates = @ + 1, !.quiet = FALSE]
  /\ UNCHANGED <<service, errorListener, destFS, dirs, running, emitted, last>>

\* the catch block of a handler (lines 290-297, 315-322): emit('error', ...)
\* throws when nobody listens, and the handler's promise rejects
HandlerFailed(i, h) ==
  /\ inflight' = Drop(i)
  /\ IF EmitThrows("error")
     THEN /\ emitted' = <<>>
          /\ hist' = [h EXCEPT !.rejections = 1, !.quiet = FALSE]
     ELSE /\ emitted' = <<"error">>
          /\ hist' = [h EXCEPT !.quiet = FALSE]

\* handleFileChange, through processFile's readFile (lines 228-236)
HandlerRead(i, fail) ==
  /\ UNCHANGED <<probe, gen>>
  /\ pc = "idle"
  /\ i \in 1..Len(inflight)
  /\ inflight[i].kind # "unlink"
  /\ inflight[i].stage = "start"
  /\ LET path == inflight[i].path
         read == ReadFile(path, fail)
     IN IF GetFileType(path, Cfg.sourcePatterns) = <<>>
        THEN /\ inflight' = Drop(i)
             /\ emitted' = <<>>
             /\ hist' = [hist EXCEPT !.quiet = FALSE]
        ELSE IF read = <<>> THEN HandlerFailed(i, hist)
        ELSE /\ inflight' = [inflight EXCEPT ![i].stage = "read",
                                             ![i].content = read]
             /\ emitted' = <<>>
             /\ hist' = [hist EXCEPT !.quiet = FALSE]
  /\ UNCHANGED <<service, errorListener, files, running, last>>

\* handleFileChange, the rest of processFile and lines 286-289
HandlerFinish(i, fail) ==
  /\ UNCHANGED <<probe, gen>>
  /\ pc = "idle"
  /\ i \in 1..Len(inflight)
  /\ inflight[i].stage = "read"
  /\ LET path == inflight[i].path
         \* getModificationTime throws for a source that is gone
         failed == IF fail = "none" /\ path \notin DOMAIN srcFS
                   THEN "stat" ELSE fail
         r == ProcessFile(path, inflight[i].content, failed)
     IN /\ destFS' = DestAfter(r)
        /\ IF r.kind = "doc"
           THEN /\ filesCache' = CacheAfter(filesCache, path, r.checksum)
                /\ inflight' = Drop(i)
                /\ emitted' = <<inflight[i].kind>>
                /\ hist' = [Wrote(hist, r) EXCEPT !.quiet = FALSE,
                                                  !.dropped = @ \ {path}]
           ELSE /\ HandlerFailed(i, Wrote(hist, r))
                /\ UNCHANGED filesCache
  /\ UNCHANGED <<config, pathMapper, watcher, leaked, errorListener, srcFS,
                 dirs, running, last>>

\* variant: the cache keeps the entry of a removed source
CacheKeeps(cache, path) == cache

\* this.filesCache.delete(path), line 312
CacheWithout(cache, path) == Remove(cache, {path})

\* handleFileRemoval (lines 303-323)
HandlerUnlink(i, deleteOk) ==
  /\ UNCHANGED <<probe, gen>>
  /\ pc = "idle"
  /\ i \in 1..Len(inflight)
  /\ inflight[i].kind = "unlink"
  /\ LET path == inflight[i].path
         type == GetFileType(path, Cfg.sourcePatterns)
     IN IF type = <<>>
        THEN /\ inflight' = Drop(i)
             /\ emitted' = <<>>
             /\ hist' = [hist EXCEPT !.quiet = FALSE]
             /\ UNCHANGED <<destFS, filesCache>>
        ELSE IF ~HasSubdir(Mapper, type[1]) \/ ~deleteOk
        THEN /\ HandlerFailed(i, hist)
             /\ UNCHANGED <<destFS, filesCache>>
        ELSE /\ destFS' = Remove(destFS,
                            {Abs(MapPath(Mapper, path, type[1], Cfg.outputDir))})
             /\ filesCache' = CacheWithout(filesCache, path)
             /\ inflight' = Drop(i)
             /\ emitted' = <<"file-removed">>
             /\ hist' = [hist EXCEPT !.quiet = FALSE,
                                     !.unlinked = @ \cup {path},
                                     !.dropped = @ \cup {path}]
  /\ UNCHANGED <<config, pathMapper, watcher, leaked, errorListener, srcFS,
                 dirs, running, last>>

Next ==
  \/ \E c \in Configs, mkdirOk \in BOOLEAN : Initialize(c, mkdirOk)
  \/ RegisterErrorListener
  \/ SyncCall
  \/ \E fail \in FailPoints : SyncFile(fail)
  \/ SyncFinish
  \/ WatchCall
  \/ StopWatching
  \/ CleanCall
  \/ ValidateCall
  \/ \E p \in Sources :
       \E now \in {<<>>} \cup {<<c>> : c \in RawContents(p)} : EnvEdit(p, now)
  \/ \E i \in 1..MaxInflight, fail \in {"none", "read"} : HandlerRead(i, fail)
  \/ \E i \in 1..MaxInflight, fail \in FailPoints \ {"read"} : HandlerFinish(i, fail)
  \/ \E i \in 1..MaxInflight, deleteOk \in BOOLEAN : HandlerUnlink(i, deleteOk)

Spec == Init /\ [][Next]_vars

\* ---------------------------------------------------------------- watching
\* The service in watch mode: it has been initialised with the standard
\* configuration (watch and clean enabled, absolute output root), and from
\* there it is watched, stopped and synchronised while sources are edited,
\* removed and created again.  A listener for 'error' is registered.
WatchConfig == Config(Given(StdPatterns), AbsOut, TRUE, TRUE)

Initialized(c) ==
  /\ probe = NoProbe
  /\ gen = NewGenerationWatcher
  /\ config = <<Adopted(c)>>
  /\ pathMapper = NewPathMapper(c.sourcePatterns)
  /\ dirs = {Abs(c.outputDir)}
  /\ hist = [calls |-> 0, edits |-> 0, creates |-> 0, call |-> "initialize",
             before |-> "none", everInit |-> TRUE, quiet |-> FALSE, inRow |-> FALSE,
             prevOk |-> {}, ok |-> {}, written |-> {}, rejections |-> 0, globFailed |-> {},
             unlinked |-> {}, dropped |-> {}, wrote |-> <<>>, by |-> <<>>]
  /\ last = [op |-> "initialize", before |-> "none", outcome |-> "resolved", error |-> "",
             config |-> <<>>, mapper |-> <<>>, dirs |-> {},
             initialized |-> FALSE, result |-> EmptyResult,
             discovered |-> <<>>, deleted |-> {}, processed |-> {},
             inRow |-> FALSE, prevOk |-> {}]

InitWatch ==
  /\ Initialized(WatchConfig)
  /\ filesCache = <<>>
  /\ watcher = <<>>
  /\ leaked = {}
  /\ errorListener = TRUE
  /\ srcFS \in [Sources -> {Doc(<<>>, "A")}]
  /\ destFS = (ManualInReference :> ManualDoc) @@ (ManualInNotes :> ManualDoc)
                @@ (StaleGuide :> ManualDoc)
  /\ pc = "idle"
  /\ op = "none"
  /\ sourceFiles = <<>>
  /\ idx = 1
  /\ result = EmptyResult
  /\ inflight = <<>>
  /\ emitted = <<>>

NextWatch ==
  \/ WatchCall
  \/ StopWatching
  \/ SyncCall
  \/ \E fail \in {"none", "write"} : SyncFile(fail)
  \/ SyncEnd(FALSE)
  \/ \E p \in Sources :
       \E now \in {<<>>, <<Doc(<<>>, "B")>>} : EnvEdit(p, now)
  \/ \E p \in Sources : EnvCreate(p, Doc(<<>>, "A"))
  \/ \E i \in 1..MaxInflight, fail \in {"none", "read"} : HandlerRead(i, fail)
  \/ \E i \in 1..MaxInflight, fail \in FailPoints \ {"read"} : HandlerFinish(i, fail)
  \/ \E i \in 1..MaxInflight, deleteOk \in BOOLEAN : HandlerUnlink(i, deleteOk)

SpecWatch == InitWatch /\ [][NextWatch]_vars

\* ------------------------------------------------- sources of every shape
InitDocs ==
  \* the same configuration with validate set
  LET WithValidate(c, validate) == [c EXCEPT !.validate = validate]
  IN
  \* An initialized service, with validation on or off, over sources whose
  \* metadata blocks take every shape; the file system does not fail here.
  LET DocConfigs == { WithValidate(WatchConfig, v) : v \in BOOLEAN }
  IN
  /\ \E c \in DocConfigs : Initialized(c)
  /\ filesCache = <<>>
  /\ watcher = <<>>
  /\ leaked = {}
  /\ errorListener = TRUE
  /\ srcFS \in [Sources -> UNION {DocContents(p) : p \in Sources}]
  /\ \A p \in Sources : srcFS[p] \in DocContents(p)
  /\ destFS = (ManualInNotes :> ManualDoc)
  /\ pc = "idle"
  /\ op = "none"
  /\ sourceFiles = <<>>
  /\ idx = 1
  /\ result = EmptyResult
  /\ inflight = <<>>
  /\ emitted = <<>>

NextDocs ==
  \/ SyncCall
  \/ WatchCall
  \/ SyncFile("none")
  \/ SyncEnd(FALSE)
  \/ Validate({})
  \/ \E p \in Sources : \E c \in DocContents(p) : EnvEdit(p, <<c>>)
  \/ \E i \in 1..MaxInflight : HandlerRead(i, "none")
  \/ \E i \in 1..MaxInflight : HandlerFinish(i, "none")

SpecDocs == InitDocs /\ [][NextDocs]_vars

\* ---------------------------------------------------------- discovery
InitDiscovery ==
  LET DiscoveryConfigs ==
        LET UpPatterns ==
              LET PGuideUp == [PGuide EXCEPT !.pattern = <<GDir(".."), GDir("proj")>> \o @]
              IN
              \* The service initialised with patterns written from the project root and
              \* with patterns that start with "../" (as DEFAULT_CONFIG and the tests write
              \* them), with and without cleanup; the expansion of any pattern may fail.
              LET PCommandUp == [PCommand EXCEPT !.pattern = <<GDir(".."), GDir("proj")>> \o @]
              IN
                          <<PCommandUp, PGuideUp>>
        IN
        { Config(Given(tb), AbsOut, FALSE, clean) :
            tb \in {StdPatterns, UpPatterns}, clean \in BOOLEAN }
  IN
  /\ \E c \in DiscoveryConfigs : Initialized(c)
  /\ filesCache = <<>>
  /\ watcher = <<>>
  /\ leaked = {}
  /\ errorListener = TRUE
  /\ srcFS \in [Sources -> {Doc(<<>>, "A")}]
  /\ destFS = (ManualInNotes :> ManualDoc) @@ (StaleGuide :> ManualDoc)
  /\ pc = "idle"
  /\ op = "none"
  /\ sourceFiles = <<>>
  /\ idx = 1
  /\ result = EmptyResult
  /\ inflight = <<>>
  /\ emitted = <<>>

NextDiscovery ==
  \/ \E failing \in SUBSET {1, 2} : SyncCallWhen(failing)
  \/ \E fail \in {"none", "write"} : SyncFile(fail)
  \/ SyncEnd(FALSE)
  \/ \E p \in Sources : EnvEdit(p, <<>>)

SpecDiscovery == InitDiscovery /\ [][NextDiscovery]_vars

\* ------------------------------------------------------------- races
\* The service initialised for watching while sources are edited twice or
\* removed, also during the pass of watch(), with two handlers in flight
\* whose asynchronous steps interleave.
NextRace ==
  \/ WatchCall
  \/ SyncFile("none")
  \/ SyncEnd(FALSE)
  \/ \E p \in Sources :
       \E now \in {<<>>, <<Doc(<<>>, "B")>>, <<Doc(<<>>, "C")>>} :
          EnvEditWithin(p, now, {"idle", "files"}, MaxRaceEdits, MaxRaceInflight)
  \/ \E i \in 1..MaxRaceInflight : HandlerRead(i, "none")
  \/ \E i \in 1..MaxRaceInflight : HandlerFinish(i, "none")
  \/ \E i \in 1..MaxRaceInflight : HandlerUnlink(i, TRUE)

SpecRace == InitWatch /\ [][NextRace]_vars

\* ------------------------------------------------------ the source tree
\* The service initialised for watching, without cleanup, over a source tree
\* with the documentation of two assistants, a guide and a README.
InitTree ==
  LET PAssistants ==
        [pattern |-> <<GDir("assistants"), GStar, GSeg("docs", MdExts, FALSE)>>,
         type |-> "assistant", outputSubdir |-> <<D("reference"), D("assistants")>>]
  IN
  /\ Initialized(Config(Given(<<PAssistants, PGuide>>), AbsOut, TRUE, FALSE))
  /\ filesCache = <<>>
  /\ watcher = <<>>
  /\ leaked = {}
  /\ errorListener = TRUE
  /\ srcFS \in [SeqToSet(TreeOrder) \cup {SIntro} -> {Doc(<<>>, "A")}]
  /\ destFS = (ManualInNotes :> ManualDoc)
  /\ pc = "idle"
  /\ op = "none"
  /\ sourceFiles = <<>>
  /\ idx = 1
  /\ result = EmptyResult
  /\ inflight = <<>>
  /\ emitted = <<>>

NextTree ==
  \/ SyncCall
  \/ WatchCall
  \/ SyncFile("none")
  \/ SyncEnd(FALSE)
  \/ \E p \in SeqToSet(TreeOrder) \cup {SIntro} : EnvEdit(p, <<Doc(<<>>, "B")>>)
  \/ \E i \in 1..MaxInflight : HandlerRead(i, "none")
  \/ \E i \in 1..MaxInflight : HandlerFinish(i, "none")

SpecTree == InitTree /\ [][NextTree]_vars

\* ------------------------------------------------ helpers on their own
\* PathMapper, FileDiscovery and FrontmatterProcessor are exported and used
\* (and tested) on their own.  Here one helper is called once with arguments
\* drawn from a bounded set; probe keeps the arguments and what came back.
Asked(fn, args) == [fn |-> fn, args |-> args, done |-> FALSE, ret |-> <<>>]
Answered(ret) == [fn |-> probe.fn, args |-> probe.args, done |-> TRUE, ret |-> ret]
\* mapper.mapPath(sourcePath, type, outputDir)
CallMapPath ==
  LET Thrown == [threw |-> TRUE, value |-> <<>>]
  IN
  LET Returned(value) == [threw |-> FALSE, value |-> value]
  IN
  /\ probe.fn = "mapPath"
  /\ ~probe.done
  /\ LET a == probe.args
     IN probe' = Answered(IF HasSubdir(a.mapper, a.type)
                            THEN Returned(MapPath(a.mapper, a.sourcePath, a.type,
                                                  a.outputDir))
                            ELSE Thrown)
  /\ UNCHANGED <<service, errorListener, files, running, inflight, emitted,
                 last, hist, gen>>

Chars(s) ==
  \* Strings, where their characters matter, are sequences of one-character
  \* strings.  A glob pattern is a sequence of items: a character, or a brace
  \* group {a,b} with its alternatives.
  LET Ch(c) == [k |-> "char", c |-> c, alts |-> {}]
  IN
            [i \in 1..Len(s) |-> Ch(s[i])]

\* FileDiscovery.globToRegex without the final "$"
GlobToRegex(pattern) ==
  \* globToRegex, lines 82-91, item by item: "." and "/" escaped, "*" to the
  \* class [^/]*, "?" to ".", a brace group to a group of alternatives; any
  \* other character stands for itself
  LET RegexOf(item) ==
        CASE item.k = "brace" -> [k |-> "group", c |-> "", alts |-> item.alts]
          [] item.k = "char" /\ item.c = "*" -> [k |-> "notSlashStar", c |-> "", alts |-> {}]
          [] item.k = "char" /\ item.c = "?" -> [k |-> "dot", c |-> "", alts |-> {}]
          [] OTHER -> [k |-> "lit", c |-> item.c, alts |-> {}]
  IN
                        [i \in 1..Len(pattern) |-> RegexOf(pattern[i])]

\* the regular expression matches the whole of s
RECURSIVE MatchesAll(_, _)
MatchesAll(regex, s) ==
  IF regex = <<>> THEN s = <<>>
  ELSE LET h == Head(regex)
           After(n) == MatchesAll(Tail(regex), SubSeq(s, n + 1, Len(s)))
       IN CASE h.k = "lit" -> s # <<>> /\ s[1] = h.c /\ After(1)
            [] h.k = "dot" -> s # <<>> /\ After(1)
            [] h.k = "notSlashStar" ->
                 \E n \in 0..Len(s) :
                    (\A i \in 1..n : s[i] # "/") /\ After(n)
            [] h.k = "group" ->
                 \E a \in h.alts : IsPrefix(a, s) /\ After(Len(a))

\* new RegExp(regex + '$').test(s): a match may start anywhere and has to
\* end at the end of s
TestRegex(regex, s) ==
  \E start \in 1..(Len(s) + 1) : MatchesAll(regex, SubSeq(s, start, Len(s)))

\* variant: the path is taken as it is
KeepBackslashes(filePath) == filePath

\* filePath.replace(/\\/g, '/'), line 37
NormalizePath(filePath) ==
  [i \in 1..Len(filePath) |-> IF filePath[i] = "\\" THEN "/" ELSE filePath[i]]

\* FileDiscovery.getFileType over strings: <<type>>, or <<>> for null
RECURSIVE GetFileTypeOf(_, _)
GetFileTypeOf(filePath, patterns) ==
  IF patterns = <<>> THEN <<>>
  ELSE IF TestRegex(GlobToRegex(Head(patterns).pattern), NormalizePath(filePath))
    THEN <<Head(patterns).type>>
  ELSE GetFileTypeOf(filePath, Tail(patterns))

\* glob patterns: g/*.md, *.md, g/?.md, c/*/d.{m,mx}
GlobGuide == Chars(<<"g", "/", "*", ".", "m", "d">>)
GlobAnyMd == Chars(<<"*", ".", "m", "d">>)
GlobOneChar == Chars(<<"g", "/", "?", ".", "m", "d">>)
GlobDocs ==
  LET Br(alts) == [k |-> "brace", c |-> "", alts |-> alts]
  IN
  Chars(<<"c", "/", "*", "/", "d", ".">>) \o <<Br({<<"m">>, <<"m", "x">>})>>
\* paths: g/a.md, g/ab.md, g/.md, xg/a.md, g/a/b.md, g/a.mdx, g/aXmd,
\* g\a.md, /p/c/i/d.m, c/i/d.mx, c//d.m, c/i/d.x, c/i/j/d.m, q/r.txt
GlobPaths ==
  { <<"g", "/", "a", ".", "m", "d">>,
    <<"g", "/", "a", "b", ".", "m", "d">>,
    <<"g", "/", ".", "m", "d">>,
    <<"x", "g", "/", "a", ".", "m", "d">>,
    <<"g", "/", "a", "/", "b", ".", "m", "d">>,
    <<"g", "/", "a", ".", "m", "d", "x">>,
    <<"g", "/", "a", "X", "m", "d">>,
    <<"g", "\\", "a", ".", "m", "d">>,
    <<"/", "p", "/", "c", "/", "i", "/", "d", ".", "m">>,
    <<"c", "/", "i", "/", "d", ".", "m", "x">>,
    <<"c", "/", "/", "d", ".", "m">>,
    <<"c", "/", "i", "/", "d", ".", "x">>,
    <<"c", "/", "i", "/", "j", "/", "d", ".", "m">>,
    <<"q", "/", "r", ".", "t", "x", "t">> }

\* pattern tables over these globs, in both orders where two of them accept
\* the same path
TypedGlob(g, type) == [pattern |-> g, type |-> type]
\* globToRegex(pattern).test(path)
CallTest ==
  /\ probe.fn = "test"
  /\ ~probe.done
  /\ probe' = Answered(TestRegex(GlobToRegex(probe.args.pattern), probe.args.path))
  /\ UNCHANGED <<service, errorListener, files, running, inflight, emitted,
                 last, hist, gen>>

\* fileDiscovery.getFileType(filePath, patterns)
CallGetFileType ==
  /\ probe.fn = "getFileType"
  /\ ~probe.done
  /\ probe' = Answered(GetFileTypeOf(probe.args.filePath, probe.args.patterns))
  /\ UNCHANGED <<service, errorListener, files, running, inflight, emitted,
                 last, hist, gen>>

\* Documents as text, for FrontmatterProcessor on its own: a document is a
\* sequence of lines.  A line is the delimiter "---", a field "key: text" of
\* a metadata block, a line that is not valid YAML, or a line of body text.
\* The text of a field is a YAML scalar: the characters s, in quotes or not.
Line(k, key, q, s) == [k |-> k, key |-> key, text |-> [q |-> q, s |-> s]]
Delim == Line("delim", "", FALSE, "---")
BodyLine(s) == Line("text", "", FALSE, s)
FieldLine(key, text) == [k |-> "field", key |-> key, text |-> text]

\* metadata values: strings and numbers
Str(s) == [t |-> "str", s |-> s, n |-> 0]
Num(n) == [t |-> "num", s |-> "", n |-> n]
EmptyData == [key \in {} |-> Str("")]
\* matter(content) of gray-matter: the metadata block between a leading
\* delimiter and the next one loaded as YAML, and the text after it; it
\* throws when the block is not valid YAML
Matter(content) ==
  LET Load(text) ==
        IF ~text.q /\ text.s = "7" THEN Num(7) ELSE Str(text.s)
  IN
  \* YAML: a plain scalar with ": " inside is not a scalar but a broken
  \* mapping, and a plain scalar of digits is a number
  LET LoadFails(text) == ~text.q /\ text.s = "a: b"
  IN
  IF content = <<>> \/ content[1].k # "delim"
    THEN [threw |-> FALSE, data |-> EmptyData, body |-> content]
  ELSE LET closers == {i \in 2..Len(content) : content[i].k = "delim"}
           close == IF closers = {} THEN Len(content) + 1
                    ELSE CHOOSE i \in closers : \A j \in closers : i <= j
           block == SubSeq(content, 2, close - 1)
           keys == {block[i].key : i \in 1..Len(block)}
           LastOf(key) == CHOOSE i \in 1..Len(block) :
                            /\ block[i].key = key
                            /\ \A j \in (i + 1)..Len(block) : block[j].key # key
       IN IF \E i \in 1..Len(block) :
               block[i].k # "field" \/ LoadFails(block[i].text)
            THEN [threw |-> TRUE, data |-> EmptyData, body |-> <<>>]
            ELSE [threw |-> FALSE,
                  data |-> [key \in keys |-> Load(block[LastOf(key)].text)],
                  body |-> SubSeq(content, close + 1, Len(content))]

\* variant: whether the content starts with the delimiter is not looked at
NeverStarts(content) == FALSE

\* content.startsWith('---'), line 13
StartsWithDelimiter(content) ==
  content # <<>> /\ content[1].k = "delim"

\* FrontmatterProcessor.parse over text: <<>> for null, <<data>> otherwise
ParseText(content) ==
  LET m == Matter(content)
  IN IF m.threw THEN <<>>
     ELSE IF DOMAIN m.data = {} /\ ~StartsWithDelimiter(content) THEN <<>>
     ELSE <<m.data>>

Texts ==
  LET BadYaml == Line("bad", "", FALSE, "title: [")
  IN
  LET Blocks ==
        { <<>>,
          <<Delim, Delim>>,
          <<Delim, FieldLine("title", [q |-> FALSE, s |-> "Old"]), Delim>>,
          <<Delim, FieldLine("title", [q |-> TRUE, s |-> "7"]),
                   FieldLine("sidebar_position", [q |-> FALSE, s |-> "7"]), Delim>>,
          <<Delim, BadYaml, Delim>>,
          <<Delim, FieldLine("title", [q |-> FALSE, s |-> "a: b"]), Delim>> }
  IN
  \* documents: no block, a block with a title, an empty block, a block that
  \* is not valid YAML, each over one or two lines of body, and nothing at all
  LET Bodies == { <<BodyLine("# Header")>>, <<BodyLine("# Header"), BodyLine("text")>> }
  IN
         { bl \o bd : bl \in Blocks, bd \in Bodies \cup {<<>>} }

\* processor.parse(content)
CallParse ==
  /\ probe.fn = "parse"
  /\ ~probe.done
  /\ probe' = Answered(ParseText(probe.args))
  /\ UNCHANGED <<service, errorListener, files, running, inflight, emitted,
                 last, hist, gen>>

\* the digits of the numbers of this universe
NumText(n) == IF n = 7 THEN "7" ELSE "0"

\* the YAML text matter.stringify writes for a value: a string that would
\* not load back as itself is put in quotes
Dump(v) ==
  IF v.t = "num" THEN [q |-> FALSE, s |-> NumText(v.n)]
  ELSE [q |-> v.s \in {"a: b", "7"}, s |-> v.s]

\* stringifyFrontmatter, line 140: `${key}: ${value}`, the value as it is
PlainText(v) ==
  [q |-> FALSE, s |-> IF v.t = "num" THEN NumText(v.n) ELSE v.s]

\* the field lines of a metadata object, each value written as
\* stringifyFrontmatter does (plain) or as matter.stringify does
Fields(fm, plain) ==
  LET KeyOrder == <<"title", "description", "sidebar_position">>
  IN
  LET ks == SelectSeq(KeyOrder, LAMBDA key : key \in DOMAIN fm)
  IN [i \in 1..Len(ks) |-> FieldLine(ks[i], IF plain THEN PlainText(fm[ks[i]])
                                                      ELSE Dump(fm[ks[i]]))]

\* variant: the fallback keeps nothing of the content
TailDropped(content) == <<>>

\* inject, line 39: `${content}`, the whole content after the new block
FallbackTail(content) == content

\* FrontmatterProcessor.inject over text, and the path it took
InjectText(content, fm) ==
  LET Blank == Line("text", "", FALSE, "")
  IN
  \* matter.stringify(bodyContent, frontmatter)
  LET Stringify(body, data) ==
        <<Delim>> \o Fields(data, FALSE) \o <<Delim>> \o body
  IN
  LET m == Matter(content)
  IN IF m.threw
       THEN [path |-> "fallback",
             text |-> <<Delim>> \o Fields(fm, TRUE) \o <<Delim, Blank>>
                        \o FallbackTail(content)]
       ELSE [path |-> "normal", text |-> Stringify(m.body, fm)]

\* processor.inject(content, fm), and processor.parse of what it returned
CallInject ==
  /\ probe.fn = "inject"
  /\ ~probe.done
  /\ LET r == InjectText(probe.args.content, probe.args.fm)
     IN probe' = Answered([path |-> r.path, text |-> r.text,
                           parsed |-> ParseText(r.text)])
  /\ UNCHANGED <<service, errorListener, files, running, inflight, emitted,
                 last, hist, gen>>

\* processor.validate(frontmatter)
CallValidate ==
  /\ probe.fn = "validate"
  /\ ~probe.done
  /\ probe' = Answered(FmErrors(probe.args))
  /\ UNCHANGED <<service, errorListener, files, running, inflight, emitted,
                 last, hist, gen>>

InitHelpers ==
  LET ValidateArgs ==
        LET ValidatePositions ==
              {<<>>, <<Rat(0, 1)>>, <<Rat(1, 1)>>, <<Rat(-1, 1)>>, <<Rat(3, 2)>>}
        IN
        LET ValidateDescriptions ==
              {<<>>, <<<<"">>>>, <<<<" ">>>>, <<<<"Intro">>>>, <<<<"a(160)">>>>,
               <<<<"a(161)">>>>, <<<<"a(159)", " ">>>>, <<<<"a(159)", " ", " ">>>>}
        IN
        \* metadata handed to validate: title and description absent, empty, blank
        \* and filled, descriptions at and around the length limit, positions absent,
        \* 0, 1, -1 and 1.5
        LET ValidateTitles == {<<>>, <<"">>, <<" ">>, <<"Intro">>}
        IN
        { [Fm(ti, de, <<>>) EXCEPT !.sidebar_position = po] :
            ti \in ValidateTitles, de \in ValidateDescriptions,
            po \in ValidatePositions }
  IN
  LET InjectArgs ==
        LET ValidFms ==
              \* valid metadata: a title that is a word, one with ": " inside, one of
              \* digits; a description; with and without a position
              LET FmOf(title, position) ==
                    [key \in {"title", "description"}
                              \cup (IF position = <<>> THEN {} ELSE {"sidebar_position"}) |->
                       CASE key = "title" -> title
                         [] key = "description" -> Str("d")
                         [] OTHER -> position[1]]
              IN
              { FmOf(ti, po) : ti \in {Str("Intro"), Str("a: b"), Str("7")},
                               po \in {<<>>, <<Num(7)>>} }
        IN
                    { [content |-> c, fm |-> fm] : c \in Texts, fm \in ValidFms }
  IN
  LET TypeArgs ==
        LET GlobTables ==
              { <<TypedGlob(GlobGuide, "guide"), TypedGlob(GlobAnyMd, "about")>>,
                <<TypedGlob(GlobAnyMd, "about"), TypedGlob(GlobGuide, "guide")>>,
                <<TypedGlob(GlobDocs, "command"), TypedGlob(GlobOneChar, "guide")>>,
                <<>> }
        IN
                  { [filePath |-> s, patterns |-> tb] : s \in GlobPaths, tb \in GlobTables }
  IN
  LET TestArgs ==
        LET Globs == {GlobGuide, GlobAnyMd, GlobOneChar, GlobDocs}
        IN
                  { [pattern |-> g, path |-> s] : g \in Globs, s \in GlobPaths }
  IN
  LET MapArgs ==
        LET MapTypes == {"command", "service", "assistant", "guide", "about"}
        IN
        \* source paths as the tests pass them (relative) and as discovery returns
        \* them (absolute)
        LET MapSources ==
              { <<D("commands"), D("init"), F("docs", ".mdx")>>,
                <<D("commands"), D("sub"), D("nested"), F("docs", ".md")>>,
                <<D("services"), D("template_service"), F("docs", ".md")>>,
                <<D("assistants"), D("claude"), F("docs", ".mdx")>>,
                <<D("guides"), F("intro", ".md")>>,
                SInit, SIntro }
        IN
        LET AllPatterns ==
              LET PAssistant ==
                    [pattern |-> <<GDir("assistants"), GStar, GSeg("docs", MdExts, FALSE)>>,
                     type |-> "assistant", outputSubdir |-> <<D("reference"), D("assistants")>>]
              IN
              \* a pattern table with the three container types and a flat one
              LET PService ==
                    [pattern |-> <<GDir("services"), GStar, GSeg("docs", MdExts, FALSE)>>,
                     type |-> "service", outputSubdir |-> <<D("reference"), D("api")>>]
              IN
                           <<PCommand, PService, PAssistant, PGuide>>
        IN
        { [mapper |-> m, sourcePath |-> s, type |-> ty, outputDir |-> o] :
            m \in {AllPatterns, StdPatterns}, s \in MapSources, ty \in MapTypes,
            o \in {AbsOut, RelOut} }
  IN
  /\ Constructed
  /\ gen = NewGenerationWatcher
  /\ probe \in {Asked("mapPath", a) : a \in MapArgs}
              \cup {Asked("test", a) : a \in TestArgs}
              \cup {Asked("getFileType", a) : a \in TypeArgs}
              \cup {Asked("parse", a) : a \in Texts}
              \cup {Asked("inject", a) : a \in InjectArgs}
              \cup {Asked("validate", a) : a \in ValidateArgs}

NextHelpers ==
  \/ CallMapPath
  \/ CallTest
  \/ CallGetFileType
  \/ CallParse
  \/ CallInject
  \/ CallValidate

SpecHelpers == InitHelpers /\ [][NextHelpers]_vars

\* ------------------------------------------------- GenerationWatcher
\* variant: a call made during a run starts a second run
NeverBusy(g) == FALSE

\* regenerateDocumentation, line 20: `if (this.isGenerating)`
Busy(g) == g.isGenerating

\* regenerateDocumentation up to its await (lines 19-29): a call during a
\* run only sets the flag; otherwise a run of the generate command starts
RegenerateDocumentation(g) ==
  IF Busy(g)
    THEN [g EXCEPT !.pendingRegeneration = TRUE]
    ELSE [g EXCEPT !.isGenerating = TRUE, !.execs = @ + 1,
                   !.owed = FALSE, !.during = 0]

\* startWatching (lines 52-134): no file found, and it returns; otherwise
\* the watcher and its handlers are installed and the initial generation
\* is started
StartWatching(found) ==
  /\ gen.phase = "new"
  /\ gen' = IF found
            THEN RegenerateDocumentation([gen EXCEPT !.phase = "watching"])
            ELSE [gen EXCEPT !.phase = "returned"]
  /\ UNCHANGED <<probe, service, errorListener, files, running, inflight,
                 emitted, last, hist>>

\* the handlers of 'change', 'add' and 'unlink' (lines 96-111): 'add' is
\* ignored until the watcher is ready
WatcherEvent(kind) ==
  /\ gen.phase = "watching"
  /\ gen.events < MaxGenEvents
  /\ LET heard == kind # "add" \/ gen.isReady
         g == [gen EXCEPT !.events = @ + 1,
                          !.owed = @ \/ heard,
                          !.during = IF heard /\ gen.execs > 0 THEN @ + 1 ELSE @]
     IN gen' = IF heard THEN RegenerateDocumentation(g) ELSE g
  /\ UNCHANGED <<probe, service, errorListener, files, running, inflight,
                 emitted, last, hist>>

\* the handler of 'ready' (lines 115-118)
WatcherReady ==
  /\ gen.phase = "watching"
  /\ ~gen.isReady
  /\ gen' = [gen EXCEPT !.isReady = TRUE]
  /\ UNCHANGED <<probe, service, errorListener, files, running, inflight,
                 emitted, last, hist>>

\* variant: the flag is never looked at when a run ends
NoFollowUp(g) == FALSE

\* regenerateDocumentation, line 42: `if (this.pendingRegeneration)`
FollowUp(g) == g.pendingRegeneration

\* the generate command ends, with success or failure, and the finally
\* block runs (lines 37-46)
GenerateEnds(ok) ==
  /\ gen.execs > 0
  /\ gen' = IF FollowUp(gen)
            THEN [gen EXCEPT !.execs = @ - 1, !.isGenerating = FALSE,
                             !.pendingRegeneration = FALSE, !.timers = @ + 1]
            ELSE [gen EXCEPT !.execs = @ - 1, !.isGenerating = FALSE]
  /\ UNCHANGED <<probe, service, errorListener, files, running, inflight,
                 emitted, last, hist>>

\* the callback of setTimeout(..., 100) runs (line 44)
TimerFires ==
  /\ gen.timers > 0
  /\ gen' = RegenerateDocumentation([gen EXCEPT !.timers = @ - 1])
  /\ UNCHANGED <<probe, service, errorListener, files, running, inflight,
                 emitted, last, hist>>

InitGen == probe = NoProbe /\ gen = NewGenerationWatcher /\ Constructed

NextGen ==
  \/ \E found \in BOOLEAN : StartWatching(found)
  \/ \E kind \in {"change", "add", "unlink"} : WatcherEvent(kind)
  \/ WatcherReady
  \/ \E ok \in BOOLEAN : GenerateEnds(ok)
  \/ TimerFires

\* the generate command terminates and a timer that was set fires
SpecGen ==
  /\ InitGen
  /\ [][NextGen]_vars
  /\ WF_vars(\E ok \in BOOLEAN : GenerateEnds(ok))
  /\ WF_vars(TimerFires)

\* ================================================================ properties
RanCleanup == last.op \in {"sync", "watch", "clean"} /\ last.config # <<>>

\* the absolute destinations of the typed sources the last call discovered
DiscoveredDests ==
  LET c == last.config[1]
      m == last.mapper[1]
  IN { Abs(MapPath(m, last.discovered[i],
                   GetFileType(last.discovered[i], c.sourcePatterns)[1],
                   c.outputDir)) :
         i \in { j \in 1..Len(last.discovered) :
                   /\ GetFileType(last.discovered[j], c.sourcePatterns) # <<>>
                   /\ HasSubdir(m, GetFileType(last.discovered[j],
                                               c.sourcePatterns)[1]) } }

\* C1: clean() and the cleanup step of sync() never delete the destination of
\* a source the same call discovered, with an absolute or a relative
\* outputDir, and after sync() every successfully processed source still has
\* its destination file.
C1_CleanupKeepsDestinations ==
  RanCleanup =>
    /\ last.deleted \cap DiscoveredDests = {}
    /\ last.deleted \cap last.processed = {}

\* the directories join(outputDir, p.outputSubdir) of the configured patterns
ManagedSubdirs ==
  LET c == last.config[1]
  IN { Abs(c.outputDir \o c.sourcePatterns[i].outputSubdir) :
         i \in 1..Len(c.sourcePatterns) }

\* C2: every file deleted by clean() or by the cleanup step of sync() lies
\* inside join(outputDir, p.outputSubdir) for some configured pattern p.
C2_DeletesOnlyInManagedSubdirs ==
  RanCleanup =>
    \A f \in last.deleted : \E d \in ManagedSubdirs : IsPrefix(d, DirName(f))

SecondOfTwoSyncs == last.op = "sync" /\ last.inRow /\ last.outcome = "resolved"

\* C3 (as stated): when sync() is called twice in a row and no source changes
\* in between, the second result has filesAdded = [] and filesUpdated = [].
C3_SecondSyncReportsNothing ==
  SecondOfTwoSyncs =>
    last.result.filesAdded = <<>> /\ last.result.filesUpdated = <<>>

\* C3 (amended): when sync() is called twice in a row with no other call, no
\* source change and no watch handler in between, every source in the second
\* result's filesAdded or filesUpdated is one the first call did not process
\* successfully; a source the first call processed is in neither list.
C3_SecondSyncReportsOnlyUnprocessed ==
  SecondOfTwoSyncs =>
    \A r \in SeqToSet(last.result.filesAdded)
               \cup SeqToSet(last.result.filesUpdated) :
       r.sourcePath \notin last.prevOk

C3_Witness ==
  /\ SecondOfTwoSyncs
  /\ last.prevOk = Sources
  /\ last.result.filesProcessed = 2
  /\ last.result.filesAdded = <<>>
  /\ last.result.filesUpdated = <<>>

Grew(before, after, sourcePath) ==
  /\ Len(after) = Len(before) + 1
  /\ SubSeq(after, 1, Len(before)) = before
  /\ after[Len(after)].sourcePath = sourcePath

\* C4: a successfully processed source is reported in filesAdded iff the
\* checksum cache had no entry for it when it was processed, in filesUpdated
\* iff the cache had an entry different from the checksum of its new
\* frontmatter-injected content, and in neither list otherwise.
C4_AddedUpdatedByInjectedChecksum ==
  [][ (pc = "files" /\ result'.filesProcessed = result.filesProcessed + 1) =>
        LET s == sourceFiles[idx]
            type == GetFileType(s, config[1].sourcePatterns)[1]
            raw == srcFS[s]
            fm == IF raw.block = <<>>
                  THEN GenerateDefault(ExtractName(s, type), type)
                  ELSE raw.block[1]
            sum == GetChecksum(Doc(<<fm>>, raw.body))
            absent == s \notin DOMAIN filesCache
            differs == ~absent /\ filesCache[s] # sum
        IN /\ IF absent
              THEN Grew(result.filesAdded, result'.filesAdded, s)
              ELSE result'.filesAdded = result.filesAdded
           /\ IF differs
              THEN Grew(result.filesUpdated, result'.filesUpdated, s)
              ELSE result'.filesUpdated = result.filesUpdated
           /\ filesCache'[s] = sum ]_vars

\* the source bytes changed between two passes and the injected content did
\* not: both sources processed, neither reported
C4_Witness ==
  /\ last.op = "sync"
  /\ last.outcome = "resolved"
  /\ ~last.inRow
  /\ hist.edits = 1
  /\ \E s \in DOMAIN srcFS : srcFS[s].block # <<>>
  /\ last.prevOk = Sources
  /\ last.result.filesProcessed = 2
  /\ last.result.filesAdded = <<>>
  /\ last.result.filesUpdated = <<>>

\* C5: during sync(), a failure while processing one discovered file is
\* recorded as one entry of errors with recoverable = true and file = that
\* source path, the loop goes on with the next file, the pass ends only after
\* the last discovered file, and every entry of errors is recoverable.
C5_FileFailureRecordedAndSkipped ==
  [][ /\ (pc = "files" /\ idx' = idx + 1) =>
           /\ pc' = "files"
           /\ sourceFiles' = sourceFiles
           /\ \/ /\ result'.filesProcessed = result.filesProcessed + 1
                 /\ result'.errors = result.errors
              \/ /\ result'.filesProcessed = result.filesProcessed
                 /\ Len(result'.errors) = Len(result.errors) + 1
                 /\ SubSeq(result'.errors, 1, Len(result.errors)) = result.errors
                 /\ result'.errors[Len(result'.errors)].file = sourceFiles[idx]
                 /\ result'.errors[Len(result'.errors)].recoverable
      /\ (pc = "files" /\ pc' = "idle") => idx > Len(sourceFiles)
      /\ \A i \in 1..Len(last'.result.errors) :
            last'.result.errors[i].recoverable ]_vars

\* the first discovered file failed and the one after it was processed
C5_Witness ==
  /\ last.op = "sync"
  /\ last.discovered = SourceOrder
  /\ Len(last.result.errors) = 1
  /\ last.result.errors[1].file = SInit
  /\ last.result.errors[1].recoverable
  /\ last.result.filesProcessed = 1

\* C6: on an initialized service sync() rejects only when discovery fails
\* (discoverFiles never does); a failure confined to one file, a failing
\* deletion of one orphan included, never makes sync() reject.
C6_SyncNeverRejectsOnOneFile ==
  (last.op = "sync" /\ last.initialized) => last.outcome = "resolved"

\* C7: sync(), watch(), clean() and validate() reject as not initialized and
\* touch no file unless an earlier initialize() has resolved.
C7_NothingRunsBeforeInitializeResolved ==
  /\ pc = "files" => hist.everInit
  /\ (last.op \in {"sync", "watch", "clean", "validate"} /\ ~last.initialized)
       => (last.outcome = "rejected" /\ last.error = "Service not initialized")

\* C8: initialize() with an empty outputDir or with missing or empty
\* sourcePatterns rejects, creates no directory and adopts nothing of the
\* configuration: the service's configuration, its path mapping and the
\* directories are what they were before the call.
C8_RejectedInitializeAdoptsNothing ==
  (last.op = "initialize" /\ last.error \in ValidationErrors) =>
     /\ last.outcome = "rejected"
     /\ config = last.config
     /\ dirs = last.dirs
     /\ pathMapper = last.mapper

\* C9: on a service initialized with watch = false, watch() rejects without
\* running the initial sync, without writing or deleting a destination file,
\* without changing the checksum cache and without installing a watcher.
C9_WatchDisabledRejectsUntouched ==
  [][ ( /\ hist'.calls = hist.calls + 1
        /\ hist'.call = "watch"
        /\ config # <<>>
        /\ ~config[1].watch ) =>
        /\ last'.op = "watch"
        /\ last'.outcome = "rejected"
        /\ last'.error = "Watch mode not enabled in configuration"
        /\ pc' = "idle"
        /\ UNCHANGED <<destFS, filesCache, watcher, leaked>> ]_vars

C9_Witness ==
  /\ last.op = "watch"
  /\ last.initialized
  /\ last.error = "Watch mode not enabled in configuration"

\* C10: in watch mode a handler that hits a failure finishes without
\* throwing and without a rejected promise, whether or not a listener is
\* registered for 'error'.
C10_HandlersNeverReject == hist.rejections = 0

\* an unlink handler returns normally after deleting and notifying
UnlinkDone(i) ==
  /\ i \in 1..Len(inflight)
  /\ inflight[i].kind = "unlink"
  /\ inflight' = Drop(i)
  /\ emitted' = <<"file-removed">>

UnlinkEffect ==
  \A i \in 1..MaxInflight :
     UnlinkDone(i) =>
       LET path == inflight[i].path
           type == GetFileType(path, config[1].sourcePatterns)[1]
       IN /\ Abs(MapPath(pathMapper[1], path, type, config[1].outputDir))
               \notin DOMAIN destFS'
          /\ path \notin DOMAIN filesCache'

CountedBySync(s) ==
  /\ pc = "files"
  /\ idx <= Len(sourceFiles)
  /\ sourceFiles[idx] = s
  /\ result'.filesProcessed = result.filesProcessed + 1

\* C11 (as stated): when the unlink handler of a typed source completes, its
\* destination is gone and the cache has no entry for it, so a later sync()
\* that discovers the path again reports it in filesAdded.
C11_UnlinkedThenAdded ==
  [][ /\ UnlinkEffect
      /\ \A s \in hist.unlinked :
            CountedBySync(s) => Grew(result.filesAdded, result'.filesAdded, s)
    ]_vars

\* C11 (amended): when the unlink handler of a typed source completes, its
\* destination is gone and the cache has no entry for it; a later sync() that
\* discovers the path again reports it in filesAdded unless an add or change
\* handler has processed the path in between.
C11_UnlinkedThenAddedUnlessHandled ==
  [][ /\ UnlinkEffect
      /\ \A s \in hist.dropped :
            /\ s \notin DOMAIN filesCache
            /\ CountedBySync(s) =>
                 Grew(result.filesAdded, result'.filesAdded, s)
    ]_vars

\* a source the watch pass had processed is reported as added by a later
\* sync(), after it was removed and created again
C11_Witness ==
  /\ last.op = "sync"
  /\ last.before = "watch"
  /\ last.prevOk = Sources
  /\ hist.creates = 1
  /\ \E i \in 1..Len(last.result.filesAdded) :
        last.result.filesAdded[i].sourcePath = SIntro

\* C12: while a watcher is installed, a handler starts only for a path of
\* the expansion made by the watch() call that installed it; a file outside
\* it, created later, starts no handler.
C12_HandlersOnlyForSnapshot ==
  [][ (watcher # <<>> /\ Len(inflight') > Len(inflight)) =>
         inflight'[Len(inflight')].path \in watcher[1] ]_vars

\* C13: stopWatching() resolves whenever it is called, leaves no watcher
\* installed and changes nothing else; the second of two consecutive calls
\* changes nothing at all.
C13_StopWatchingIdempotent ==
  [][ (hist'.calls = hist.calls + 1 /\ hist'.call = "stopWatching") =>
        /\ last'.op = "stopWatching"
        /\ last'.outcome = "resolved"
        /\ watcher' = <<>>
        /\ UNCHANGED <<config, pathMapper, filesCache, leaked, errorListener,
                       srcFS, destFS, dirs, inflight, running>>
        /\ (hist.call = "stopWatching" => UNCHANGED watcher) ]_vars

\* watch(), stopWatching(), stopWatching()
C13_Witness ==
  /\ last.op = "stopWatching"
  /\ last.before = "stopWatching"
  /\ hist.calls = 3
  /\ filesCache # <<>>
  /\ watcher = <<>>

\* C14: after stopWatching() has resolved no handler is started for an event
\* delivered later.
C14_NoHandlerStartsAfterStop ==
  [][ (last.op = "stopWatching" /\ watcher = <<>>) =>
         Len(inflight') <= Len(inflight) ]_vars

\* C15: validate() changes nothing: destination files, checksum cache and
\* watcher are as before the call, and no notification is emitted.
C15_ValidateChangesNothing ==
  [][ (hist'.calls = hist.calls + 1 /\ hist'.call = "validate") =>
        /\ last'.op = "validate"
        /\ emitted' = <<>>
        /\ UNCHANGED <<config, pathMapper, filesCache, watcher, leaked,
                       srcFS, destFS, dirs, inflight, running>> ]_vars

\* validate() found an error on a service that has synchronised files
C15_Witness ==
  /\ last.op = "validate"
  /\ last.outcome = "resolved"
  /\ Len(last.result.errors) > 0
  /\ filesCache # <<>>

\* the entries of a validate() result that name source s
ErrorsFor(errors, s) == {i \in 1..Len(errors) : errors[i].file = s}

\* the metadata of a content violates a validation rule
ViolatesRule(content) ==
  /\ ~content.malformed
  /\ content.block # <<>>
  /\ FmErrors(content.block[1]) # <<>>

\* the metadata of a content is there and valid
ValidMetadata(content) ==
  /\ ~content.malformed
  /\ content.block # <<>>
  /\ FmErrors(content.block[1]) = <<>>

\* C16: validate() returns at least one error for every discovered file whose
\* metadata block cannot be parsed and for every discovered file whose
\* metadata violates a validation rule, and none for a discovered file whose
\* metadata is valid.
C16_ValidateReportsParseAndRuleFailures ==
  [][ (hist'.calls = hist.calls + 1 /\ hist'.call = "validate") =>
        \A i \in 1..Len(last'.discovered) :
          LET s == last'.discovered[i]
              errors == last'.result.errors
          IN /\ srcFS[s].malformed => ErrorsFor(errors, s) # {}
             /\ ViolatesRule(srcFS[s]) => ErrorsFor(errors, s) # {}
             /\ ValidMetadata(srcFS[s]) => ErrorsFor(errors, s) = {} ]_vars

HasTitleAndDescription(content) ==
  /\ content.block # <<>>
  /\ content.block[1].title # <<>>
  /\ content.block[1].description # <<>>

\* C18: every destination file written by sync() or by an add/change handler
\* begins with a metadata block that contains a title and a description,
\* whatever the source contained.
C18_WrittenFilesHaveTitleAndDescription ==
  [][ \A f \in DOMAIN destFS' :
        (f \notin DOMAIN destFS \/ destFS'[f] # destFS[f]) =>
          HasTitleAndDescription(destFS'[f]) ]_vars

\* C19: every sync() of an initialized service emits exactly one lifecycle
\* notification, 'complete' when it resolves or 'error' when it rejects,
\* never both and never neither, and only after every discovered file has
\* been handled and orphans were removed.
C19_ExactlyOneLifecycleNotification ==
  [][ (pc = "files" /\ pc' = "idle") =>
        /\ idx > Len(sourceFiles)
        /\ last'.outcome = "resolved" => emitted' = <<"complete">>
        /\ last'.outcome = "rejected" => emitted' = <<"error">> ]_vars

\* C20: sync() writes the destination of a source only when the checksum of
\* its injected content differs from the cached one or there is none: a
\* source unchanged since the previous pass causes no write.
C20_UnchangedSourceNotWritten ==
  [][ (pc = "files" /\ idx <= Len(sourceFiles) /\ idx' = idx + 1) =>
        LET s == sourceFiles[idx]
        IN (/\ s \in DOMAIN srcFS
            /\ s \in DOMAIN filesCache
            /\ GetFileType(s, Cfg.sourcePatterns) # <<>>
            /\ filesCache[s] =
                 GetChecksum(ProcessedContent(s, GetFileType(s, Cfg.sourcePatterns)[1],
                                              srcFS[s])))
           => hist'.written = hist.written ]_vars

\* C21: after clean() resolves, or sync() with clean = true resolves, no .md
\* or .mdx file remains in the output subdirectory of a configured pattern
\* unless it is the destination of a source that call discovered, and what
\* was deleted is what the call returns as removed.
C21_NoOrphanLeftInConfiguredSubdirs ==
  [][ (/\ last' # last
       /\ RanCleanup'
       /\ last'.outcome = "resolved"
       /\ last'.op = "clean" \/ last'.config[1].clean) =>
        /\ \A f \in DOMAIN destFS' :
             (/\ ExtName(f) \in MdExts
              /\ \E d \in ManagedSubdirs' : IsPrefix(d, DirName(f)))
               => f \in DiscoveredDests'
        /\ last'.result.filesRemoved = last'.deleted ]_vars

\* the types whose documents are named after their directory
ContainerTypes == {"command", "service", "assistant"}

\* C22: mapPath(sourcePath, type, outputDir) is
\* join(outputDir, subdir, name + ext) with the subdirectory registered for the
\* type (an error if there is none), the source's own extension, and the
\* name of the parent directory for command, service and assistant and the
\* file name without extension otherwise, which is the name extractName gives.
C22_MapPathJoinsSubdirNameExt ==
  (probe.fn = "mapPath" /\ probe.done) =>
    LET a == probe.args
        registered == {i \in 1..Len(a.mapper) : a.mapper[i].type = a.type}
        first == CHOOSE i \in registered : \A j \in registered : i <= j
        name == IF a.type \in ContainerTypes
                THEN BaseNameOfDir(DirName(a.sourcePath))
                ELSE BaseNameNoExt(a.sourcePath)
    IN IF registered = {}
       THEN probe.ret.threw
       ELSE /\ ~probe.ret.threw
            /\ probe.ret.value =
                 a.outputDir \o a.mapper[first].outputSubdir
                   \o <<F(name, ExtName(a.sourcePath))>>
            /\ name = ExtractName(a.sourcePath, a.type)

\* the path with every backslash turned into a forward slash
Slashed(s) == [i \in 1..Len(s) |-> IF s[i] = "\\" THEN "/" ELSE s[i]]

\* the matcher built from the pattern accepts the string
Accepts(pattern, s) == TestRegex(GlobToRegex(pattern), s)

\* C23: getFileType returns the type of the first pattern in list order whose
\* matcher accepts the path with backslashes turned into forward slashes,
\* also when a later pattern accepts it too, and no type exactly when no
\* matcher accepts it.
C23_FirstAcceptingPatternWins ==
  (probe.fn = "getFileType" /\ probe.done) =>
    LET tb == probe.args.patterns
        s == Slashed(probe.args.filePath)
        accepting == {i \in 1..Len(tb) : Accepts(tb[i].pattern, s)}
    IN IF accepting = {}
       THEN probe.ret = <<>>
       ELSE \E i \in accepting :
              /\ \A j \in accepting : i <= j
              /\ probe.ret = <<tb[i].type>>

\* a path written with backslashes got the type of the first of two
\* patterns that accept it
C23_Witness ==
  /\ probe.fn = "getFileType"
  /\ probe.done
  /\ \E i \in 1..Len(probe.args.filePath) : probe.args.filePath[i] = "\\"
  /\ Len(probe.args.patterns) = 2
  /\ \A i \in 1..2 : Accepts(probe.args.patterns[i].pattern,
                             Slashed(probe.args.filePath))
  /\ probe.ret = <<probe.args.patterns[1].type>>

\* the glob pattern matches the whole string under the stated rules: "*" is
\* one or more characters other than "/", "?" is one character, a brace
\* group is one of its alternatives, anything else is itself
RECURSIVE GlobMatchesAll(_, _)
GlobMatchesAll(pattern, s) ==
  IF pattern = <<>> THEN s = <<>>
  ELSE LET h == Head(pattern)
           After(n) == GlobMatchesAll(Tail(pattern), SubSeq(s, n + 1, Len(s)))
       IN IF h.k = "brace"
            THEN \E a \in h.alts : IsPrefix(a, s) /\ After(Len(a))
          ELSE IF h.c = "*"
            THEN \E n \in 1..Len(s) : (\A i \in 1..n : s[i] # "/") /\ After(n)
          ELSE IF h.c = "?" THEN s # <<>> /\ After(1)
          ELSE s # <<>> /\ s[1] = h.c /\ After(1)

\* C24: the matcher built from a glob pattern accepts a path if and only if
\* some suffix of the path matches the pattern, where "*" is one or more
\* characters none of which is "/", "?" is exactly one character and a brace
\* group is one of its alternatives.
C24_MatcherIsSuffixGlob ==
  (probe.fn = "test" /\ probe.done) =>
    (probe.ret <=>
       \E start \in 1..(Len(probe.args.path) + 1) :
          GlobMatchesAll(probe.args.pattern,
                         SubSeq(probe.args.path, start, Len(probe.args.path))))

\* the files pattern i of the configuration expands to, README files left out
ExpansionOf(i) ==
  SelectSeq(SourceOrder,
    LAMBDA f : /\ f \in DOMAIN srcFS
               /\ GlobMatch(ResolvePattern(Cfg.sourcePatterns[i].pattern), f)
               /\ ~IsReadme(f))

\* the expansions of the patterns from i on that did not fail, in order
RECURSIVE ExpansionsFrom(_)
ExpansionsFrom(i) ==
  IF i > Len(Cfg.sourcePatterns) THEN <<>>
  ELSE (IF i \in hist.globFailed THEN <<>> ELSE ExpansionOf(i))
         \o ExpansionsFrom(i + 1)

\* C25: when the expansion of a pattern fails, that pattern contributes no
\* path and the files of every other pattern, earlier and later, are still
\* discovered in pattern order; the sync() built on it reports errors only
\* for discovered files and, if it rejects, it is not for the discovery.
C25_FailedPatternIsSkipped ==
  /\ pc = "files" => sourceFiles = ExpansionsFrom(1)
  /\ (last.op = "sync" /\ last.config # <<>>) =>
        /\ \A i \in 1..Len(last.result.errors) :
              last.result.errors[i].file \in SeqToSet(last.discovered)
        /\ last.outcome = "rejected" => last.error = "cleanup failed"

\* a sync() resolved with no error although its first pattern failed to
\* expand, having processed the file of the second
C25_Witness ==
  /\ last.op = "sync"
  /\ last.outcome = "resolved"
  /\ hist.globFailed = {1}
  /\ hist.edits = 0
  /\ pc = "idle"
  /\ last.discovered = <<SIntro>>
  /\ last.result.filesProcessed = 1
  /\ last.result.errors = <<>>

\* C30: for every sync() that resolves, filesProcessed plus the number of
\* errors is the number of paths its discovery returned, whatever form the
\* patterns take.
C30_EveryDiscoveredPathAccounted ==
  (last.op = "sync" /\ last.config # <<>> /\ last.outcome = "resolved") =>
    last.result.filesProcessed + Len(last.result.errors) = Len(last.discovered)

\* C26: parse(content) returns "no metadata" for every content that does not
\* begin with the metadata delimiter, and a metadata object, empty, for every
\* content that begins with the delimiter followed by an empty block.
C26_NoMetadataVersusEmptyMetadata ==
  (probe.fn = "parse" /\ probe.done) =>
    LET content == probe.args
    IN /\ (content = <<>> \/ content[1].k # "delim") => probe.ret = <<>>
       /\ (Len(content) >= 2 /\ content[1].k = "delim" /\ content[2].k = "delim")
            => (probe.ret # <<>> /\ DOMAIN probe.ret[1] = {})

\* parse was given a document that starts with an empty block and returned an
\* empty object
C26_Witness ==
  /\ probe.fn = "parse"
  /\ probe.done
  /\ Len(probe.args) > 2
  /\ probe.args[1].k = "delim"
  /\ probe.args[2].k = "delim"
  /\ probe.ret # <<>>
  /\ DOMAIN probe.ret[1] = {}

\* C27: for every content and every valid frontmatter fm,
\* parse(inject(content, fm)) equals fm, on the normal path and on the
\* fallback path of inject.
C27_ParseOfInjectIsFrontmatter ==
  (probe.fn = "inject" /\ probe.done) => probe.ret.parsed = <<probe.args.fm>>

\* the text after the metadata block a document starts with, the whole
\* document when it starts with none
BodyAfterBlock(content) ==
  IF content = <<>> \/ content[1].k # "delim" THEN content
  ELSE LET closers == {i \in 2..Len(content) : content[i].k = "delim"}
           close == CHOOSE i \in closers : \A j \in closers : i <= j
       IN SubSeq(content, close + 1, Len(content))

C31_CacheHoldsLastWrittenChecksum ==
  (pc = "idle" /\ inflight = <<>>) =>
    \A s \in DOMAIN filesCache :
       s \in DOMAIN hist.wrote /\ filesCache[s] = hist.wrote[s]

\* C32: within one sync() pass no two distinct discovered source paths are
\* written to the same destination path.
C32_NoTwoSourcesShareADestination ==
  \A d \in DOMAIN hist.by : \A s1, s2 \in hist.by[d] : s1 = s2

\* C35: no operation of the service, neither sync() nor an add or change
\* watch handler, ever writes a destination file for a source whose basename
\* starts with 'readme'.
C35_NoReadmeIsEverWritten ==
  \A s \in DOMAIN hist.wrote : BaseNameNoExt(s) \notin {"README", "Readme", "readme"}

\* C33: after any sequence of initialize() calls, successful or rejected,
\* the pattern table the PathMapper maps destinations with is the
\* sourcePatterns of the configuration that sync(), clean() and the watch
\* handlers discover and classify with.
C33_MapperTableIsConfiguredPatterns ==
  config # <<>> => pathMapper = <<config[1].sourcePatterns>>

\* C34: at every moment at most one filesystem watcher created by the
\* service is open, and after stopWatching() has resolved none is open.
C34_AtMostOneWatcherNoneAfterStop ==
  /\ Len(watcher) + Cardinality(leaked) <= 1
  /\ (pc = "idle" /\ hist.call = "stopWatching") =>
        watcher = <<>> /\ leaked = {}

\* C38: when the configuration has clean = false, sync() deletes no file at
\* all and returns filesRemoved = []: every destination file that existed
\* before a step of the call still exists after it.
C38_SyncWithoutCleanDeletesNothing ==
  [][ (pc = "files" /\ op = "sync" /\ ~config[1].clean) =>
        /\ DOMAIN destFS \subseteq DOMAIN destFS'
        /\ pc' = "idle" => last'.result.filesRemoved = {} ]_vars

\* a sync() with clean = false has resolved after writing a destination,
\* and a file of a managed directory that no source maps to is still there
C38_Witness ==
  /\ pc = "idle"
  /\ last.op = "sync"
  /\ last.outcome = "resolved"
  /\ last.config # <<>>
  /\ ~last.config[1].clean
  /\ last.processed # {}
  /\ StaleGuide \in DOMAIN destFS
  /\ StaleGuide \notin last.processed

\* the destination file of a source under the active configuration
DestinationOf(s) ==
  Abs(MapPath(pathMapper[1], s, GetFileType(s, config[1].sourcePatterns)[1],
              config[1].outputDir))

\* C36: in watch mode, for every watched source, once the source stops
\* changing and all handlers have finished, its destination holds the
\* frontmatter-injected form of the source's current content and the cache
\* holds that content's checksum.
C36_WatchedSourceIsUpToDate ==
  (pc = "idle" /\ inflight = <<>> /\ watcher # <<>>) =>
    \A s \in watcher[1] \cap DOMAIN srcFS :
       LET injected == ProcessedContent(s, GetFileType(s, config[1].sourcePatterns)[1],
                                        srcFS[s])
       IN /\ DestinationOf(s) \in DOMAIN destFS
          /\ destFS[DestinationOf(s)] = injected
          /\ s \in DOMAIN filesCache
          /\ filesCache[s] = GetChecksum(injected)

\* C37: in watch mode, once a change handler and an unlink handler on the
\* same source have both finished, a source whose last event was unlink has
\* no destination file and no checksum-cache entry.
C37_UnlinkedSourceLeavesNothing ==
  (pc = "idle" /\ inflight = <<>>) =>
    \A s \in hist.unlinked \ DOMAIN srcFS :
       /\ DestinationOf(s) \notin DOMAIN destFS
       /\ s \notin DOMAIN filesCache

\* C39: in GenerationWatcher at most one run of the generate command is in
\* progress at any time, for every sequence and timing of change, add and
\* unlink events.
C39_AtMostOneRunInProgress == gen.execs <= 1

\* an event arrived during a run and another during the delay before the
\* follow-up run
C39_Witness ==
  /\ gen.execs = 1
  /\ gen.timers = 1
  /\ gen.events >= 2

\* C40: in GenerationWatcher no change is lost: after every change or unlink
\* event (and every add event after ready) a run of the generate command
\* eventually starts, whether the run in progress succeeds or fails; and the
\* events arriving during one run lead to a single follow-up run.
C40_NoChangeIsLost ==
  /\ gen.owed ~> ~gen.owed
  /\ [][ gen'.execs < gen.execs =>
           /\ gen'.timers <= gen.timers + 1
           /\ gen.during > 0 => gen'.timers = gen.timers + 1 ]_vars

\* a run ended after two events had arrived during it
C40_Witness ==
  /\ gen.execs = 0
  /\ gen.timers = 1
  /\ gen.during >= 2

====
